---- MODULE Spec2Model ----
(***************************************************************************)
(* A model of the FIA-tools foci pipeline (src/code): five command-line   *)
(* stages that communicate through a directory convention and a text      *)
(* metadata file.                                                          *)
(*                                                                         *)
(*   SpecSelect  stage 1 (select_channel_name, process_image)              *)
(*   SpecFilter  stage 3 (main_filter_foci, main_filter_imgs)              *)
(*   SpecQuant   the per-image loop of stage 4 (main_summarize_res,        *)
(*               process_nuclei_image, count_foci_in_nuclei)               *)
(*   SpecGraph   stage 5 (main_graphs_representation)                      *)
(*   SpecRun     one run of any one of these scripts                       *)
(*   SpecPipe    the directory layout of one base folder as the stages     *)
(*               write and read it                                         *)
(*   SpecPool    two executions of process_nuclei_image for one results    *)
(*               folder                                                    *)
(*   SpecUnit    one call of a helper function (validate_path_files,       *)
(*               count_foci_in_nuclei, build_intersection_mask, ...)       *)
(*                                                                         *)
(* Images are one-row label masks (a sequence of pixel values); file      *)
(* systems are sets of names.  Every specification leaves the variables   *)
(* of the other specifications at their idle value.                        *)
(***************************************************************************)
EXTENDS Naturals, Integers, Sequences, FiniteSets, TLC

VARIABLES
    \* ---- stage 1, 1_select_channels.py ----
    s_pc,                    \* position in select_channel_name / process_image
    s_error,                 \* the exception that ended the run, "" if none
    start_analysis,          \* the stripped answer to the start prompt
    valid_folders,           \* the folders validate_folders kept
    file_type,               \* process_image: the selected file type
    nuclei_channel,          \* process_image: the selected nuclei channel
    num_foci_channels,       \* process_image: how many foci channels
    foci_channels,           \* process_image: the selected foci channels
    s_fidx,                  \* index of the current input folder
    s_nfiles,                \* number of entries os.listdir(input_folder) yields
    s_idx,                   \* index of the next entry of the listing
    response,                \* the stripped answer to the overwrite prompt
    s_before,                \* history: foci_assay of the folder before this run
    s_disk,                  \* foci_assay of the current input folder
    s_handlers,              \* folders whose 1_log.txt handler is attached
    s_visited,               \* history: the listing entries handled so far
    \* ---- stage 3, 3_foci_mask_generation.py and 3_filter_imgs.py ----
    m_pc,                    \* position in main_filter_foci / main_filter_imgs
    m_error,                 \* the exception that ended the run, "" if none
    m_script,                \* which of the two scripts runs
    m_paths,                 \* the base folders listed in the JSON file
    m_layout,                \* what each listed folder holds
    folders,                 \* the keys of the dict the validation returned
    all_subfolders,          \* main_filter_foci: subfolders of the Foci folders
    chosen_subfolder,        \* main_filter_foci: the subfolder the user selected
    start_processing,        \* the stripped answer to the proceed prompt
    m_idx,                   \* index of the next listed folder
    m_processed,             \* history: the folders whose masks were written
    \* ---- stage 4, 4_foci_quantification.py ----
    q_pc,                    \* position in main_summarize_res
    q_error,                 \* the exception that ended the run, "" if none
    proceed_processing,      \* the stripped answer to the start prompt
    folder_dicts,            \* the base folders validate_folders kept
    perform_colocalization,  \* the user's answer to the colocalization prompt
    f_idx,                   \* index of the current base folder
    handlers,                \* base folders whose 4_log.log handler is attached
    metadata,                \* keys of the dict extract_metadata returned
    channels_dict,           \* channels_dict[nuc_key] = channels with a listed foci file
    nuclei_files,            \* the nuclei mask files of the folder, by image key
    q_idx,                   \* index of the next nuclei file of the loop
    all_results,             \* rows collected so far for the folder
    results_fs,              \* the results folder of the current base folder
    csv,                     \* the rows of the result csv in that results folder
    csv_saved,               \* base folders whose result csv was written
    visited,                 \* history: the loop iterations of the current folder
    \* ---- stage 5, 5_graph_representation.py ----
    g_pc,                    \* position in main_graphs_representation
    g_error,                 \* the exception that ended the run, "" if none
    start_proc,              \* the stripped answer to the start prompt
    g_folders,               \* the folders validate_path_files kept
    g_disks,                 \* what each of these folders holds
    g_idx,                   \* index of the next folder
    all_foci,                \* the folders whose data frames were loaded
    g_log,                   \* the messages logged
    g_graphs,                \* whether the figures were written
    g_listed,                \* the folders the JSON file lists
    graphs_base,             \* the folder under which the graphs folder was made
    \* ---- the directory layout of one base folder ----
    disk,                    \* the paths that exist below the base folder
    clock,                   \* index of the current second in Stamps
    p_ran,                   \* history: the stages that have run on the folder
    p_stage2_out,            \* history: the folders process_nuclei has created
    p_error,                 \* the exception that ended the last stage, "" if none
    p_quant,                 \* what the last run of stage 4 read and found
    p_graph,                 \* what the last run of stage 5 found
    \* ---- two process_nuclei_image executions on one results folder ----
    pool_pc,                 \* position of each execution in process_nuclei_image
    pool_in,                 \* the image of each execution: key, nuclei mask, foci mask
    pool_ret,                \* the records each execution returned
    pool_fs,                 \* the results folder the executions share
    \* ---- one call of a helper function ----
    u_fn,                    \* the function called
    u_args,                  \* its arguments
    u_ret,                   \* what it returned, <<>> before the call
    u_done                   \* whether the call has returned

varsS == <<s_pc, s_error, start_analysis, valid_folders, file_type, nuclei_channel,
           num_foci_channels, foci_channels, s_fidx, s_nfiles, s_idx, response,
           s_before, s_disk, s_handlers, s_visited>>

varsQ == <<q_pc, q_error, proceed_processing, folder_dicts, perform_colocalization,
           f_idx, handlers, metadata, channels_dict, nuclei_files, q_idx,
           all_results, results_fs, csv, csv_saved, visited>>

varsP == <<disk, clock, p_ran, p_stage2_out, p_error, p_quant, p_graph>>

varsM == <<m_pc, m_error, m_script, m_paths, m_layout, folders, all_subfolders,
           chosen_subfolder, start_processing, m_idx, m_processed>>

varsG == <<g_pc, g_error, start_proc, g_folders, g_disks, g_idx, all_foci, g_log,
           g_graphs, g_listed, graphs_base>>

varsW == <<pool_pc, pool_in, pool_ret, pool_fs>>

varsU == <<u_fn, u_args, u_ret, u_done>>

vars == <<varsS, varsM, varsQ, varsG, varsP, varsW, varsU>>

\* the variables a stage leaves alone
notS == <<varsM, varsQ, varsG, varsP, varsW, varsU>>
notM == <<varsS, varsQ, varsG, varsP, varsW, varsU>>
notQ == <<varsS, varsM, varsG, varsP, varsW, varsU>>
notG == <<varsS, varsM, varsQ, varsP, varsW, varsU>>
notP == <<varsS, varsM, varsQ, varsG, varsW, varsU>>
notW == <<varsS, varsM, varsQ, varsG, varsP, varsU>>
notU == <<varsS, varsM, varsQ, varsG, varsP, varsW>>

(***************************************************************************)
(* Bounds                                                                  *)
(***************************************************************************)
MaxFolders == 2      \* base folders listed in the JSON file
MaxImages == 2       \* nuclei mask files in the latest nuclei folder
MaxFiles == 2        \* entries in the listing of a stage 1 input folder
MaxChannels == 3     \* channels of an input image
MaxClock == 3        \* seconds at which a stage takes its timestamp
MaxStamped == 2      \* timestamped folders with the same prefix in one directory
MaxMasks == 2        \* masks passed to build_intersection_mask
MaxPixels == 3       \* pixels of a mask passed to build_intersection_mask
MaxPieces == 2       \* pieces of the base name of a source image
MaxEntries == 2      \* entries of a metadata dictionary
MaxNuclei == 10      \* nuclei of one image in the csv

(***************************************************************************)
(* Generic helpers                                                         *)
(***************************************************************************)
Range(s) == {s[i] : i \in 1..Len(s)}

RECURSIVE SelectSeq2(_, _)
\* the subsequence of s whose elements are in set S (order kept)
SelectSeq2(s, S) ==
    IF s = <<>> THEN <<>>
    ELSE IF Head(s) \in S THEN <<Head(s)>> \o SelectSeq2(Tail(s), S)
    ELSE SelectSeq2(Tail(s), S)

Max(S) == IF S = {} THEN 0 ELSE CHOOSE x \in S : \A y \in S : y <= x

\* str(n) as the csv writer prints an int: its decimal digits
RECURSIVE DecStr(_)
DecStr(n) == IF n < 10 THEN <<n>> ELSE Append(DecStr(n \div 10), n % 10)

(***************************************************************************)
(* Stage 4: inputs                                                         *)
(***************************************************************************)
\* sorted(foci_channels_info.keys()): the channel names in string order
ChannelOrder == <<"Foci_1_Channel_1", "Foci_2_Channel_2">>
Channels == Range(ChannelOrder)

AllKeys == <<"img_a", "img_b", "img_c", "img_d">>
AllFolders == <<"exp1", "exp2", "exp3", "exp4">>

\* nuclei masks as ImageJ writes them (0 background, 255 object), one row
NucleiMasks == { <<0, 0, 0, 0>>, <<255, 255, 0, 0>>, <<255, 0, 255, 255>> }
\* foci masks read for a channel; a mask of another shape is shorter
FociMasks   == { <<0, 0, 0, 0>>, <<255, 0, 255, 0>> }
BadShapeMask == <<255, 0>>
\* what os.path.exists / io.imread find for a listed foci file
ChannelInputs == {[exists |-> FALSE, mask |-> <<>>],
                  [exists |-> TRUE, mask |-> BadShapeMask]}
                 \cup {[exists |-> TRUE, mask |-> m] : m \in FociMasks}

(***************************************************************************)
(* skimage.measure.label on a one-row image: equal non-zero neighbours    *)
(* form one object, objects are numbered from 1 in raster order.           *)
(***************************************************************************)
RECURSIVE LabelAcc(_, _, _, _)
LabelAcc(m, i, acc, n) ==
    IF i > Len(m) THEN acc
    ELSE IF m[i] = 0 THEN LabelAcc(m, i + 1, Append(acc, 0), n)
    ELSE IF i > 1 /\ m[i - 1] = m[i]
         THEN LabelAcc(m, i + 1, Append(acc, acc[i - 1]), n)
    ELSE LabelAcc(m, i + 1, Append(acc, n + 1), n + 1)

measure_label(m) == LabelAcc(m, 1, <<>>, 0)

MaxLabel(lab) == Max(Range(lab))

(***************************************************************************)
(* The results folder.                                                     *)
(***************************************************************************)
EmptyResultsFs == [temp |-> FALSE, temp_files |-> {}, files |-> {}]

\* Path(temp_folder).mkdir(parents=True, exist_ok=True)
MkTemp(fs) == [fs EXCEPT !.temp = TRUE]
\* shutil.rmtree(temp_folder)
RmTemp(fs) == [fs EXCEPT !.temp = FALSE, !.temp_files = {}]
SaveFile(fs, name) == [fs EXCEPT !.files = @ \cup {name}]

(***************************************************************************)
(* count_foci_in_nuclei (4_foci_quantification.py 292-360).                *)
(* Returns [raised, rows, fs].                                             *)
(***************************************************************************)
\* a histogram filled for every pixel, background included
Hist2dAll(arr_nuc, arr_foc, n, f) ==
    Cardinality({i \in 1..Len(arr_nuc) : arr_nuc[i] = n /\ arr_foc[i] = f})

\* lines 317-322: hist_2d[n, f] after the pass over the pixels, which counts
\* a pixel only where both labels are non-zero
Hist2d(arr_nuc, arr_foc, n, f) ==
    Cardinality({i \in 1..Len(arr_nuc) :
                    arr_nuc[i] # 0 /\ arr_foc[i] # 0 /\ arr_nuc[i] = n /\ arr_foc[i] = f})

RECURSIVE NpSum(_, _)
\* np.sum over the columns 0..k of a histogram row
NpSum(row, k) == IF k < 0 THEN 0 ELSE row[k] + NpSum(row, k - 1)

\* lines 333-352: one csv row of a nucleus, read back by csv.DictReader
\* (every value a string)
FociRow(arr_nuc, arr_foc, image_key, nuc_label) ==
    LET max_foc_label == MaxLabel(arr_foc)
        overlap_per_foc == [f \in 0..max_foc_label |->
                               Hist2d(arr_nuc, arr_foc, nuc_label, f)]
        foci_count == Cardinality({f \in 0..max_foc_label : overlap_per_foc[f] # 0})
        total_foci_px == NpSum(overlap_per_foc, max_foc_label)
    IN [Image_Key |-> image_key,
        Nucleus |-> DecStr(nuc_label),
        Foci_Count |-> DecStr(foci_count),
        Nucleus_Area |-> DecStr(Cardinality({i \in 1..Len(arr_nuc) :
                                              arr_nuc[i] = nuc_label})),
        Total_Foci_Area |-> DecStr(total_foci_px)]

count_foci_in_nuclei(nuclei_mask, foci_mask, image_key, fs) ==
    IF Len(nuclei_mask) # Len(foci_mask)
    THEN [raised |-> TRUE, rows |-> <<>>, fs |-> fs]            \* ValueError
    ELSE IF ~fs.temp
    THEN [raised |-> TRUE, rows |-> <<>>, fs |-> fs]            \* open(): no such directory
    ELSE LET arr_nuc == measure_label(nuclei_mask)
             arr_foc == measure_label(foci_mask)
         IN [raised |-> FALSE,
             rows |-> [n \in 1..MaxLabel(arr_nuc) |->
                          FociRow(arr_nuc, arr_foc, image_key, n)],
             fs |-> RmTemp(fs)]

(***************************************************************************)
(* process_nuclei_image (4_foci_quantification.py 363-533).                *)
(* A data frame is a sequence of rows; a row carries its per-column foci   *)
(* values as functions from the column's channel label.                    *)
(***************************************************************************)
\* df_res.rename(columns={"Foci Count": f"Foci Count ({ch_name})", ...})
RenameRows(rows, label) ==
    [i \in 1..Len(rows) |->
        [Image_Key |-> rows[i].Image_Key,
         Nucleus |-> rows[i].Nucleus,
         Nucleus_Area |-> rows[i].Nucleus_Area,
         Foci_Count |-> (label :> rows[i].Foci_Count),
         Total_Foci_Area |-> (label :> rows[i].Total_Foci_Area)]]

SameNucleus(r, s) == r.Image_Key = s.Image_Key /\ r.Nucleus = s.Nucleus

\* df.merge(df_next, on=["Image Key", "Nucleus"], how="outer"): the rows of
\* both frames, a row of each side joined with its partner when it has one.
MergeOuter(a, b) ==
    LET joined == [i \in 1..Len(a) |->
            IF \E j \in 1..Len(b) : SameNucleus(a[i], b[j])
            THEN LET j == CHOOSE j \in 1..Len(b) : SameNucleus(a[i], b[j])
                 IN [a[i] EXCEPT !.Foci_Count = @ @@ b[j].Foci_Count,
                                 !.Total_Foci_Area = @ @@ b[j].Total_Foci_Area]
            ELSE a[i]]
        rightOnly == SelectSeq(b, LAMBDA s : \A i \in 1..Len(a) : ~SameNucleus(a[i], s))
    IN joined \o rightOnly

RECURSIVE MergeAll(_)
MergeAll(dfs) ==
    IF Len(dfs) = 1 THEN dfs[1]
    ELSE MergeAll(<<MergeOuter(dfs[1], dfs[2])>> \o SubSeq(dfs, 3, Len(dfs)))

\* lines 402-415: the channels whose file exists and has the nuclei mask's shape
LoadChannelMasks(nuclei_mask, listed, chin) ==
    {ch \in listed : chin[ch].exists /\ Len(chin[ch].mask) = Len(nuclei_mask)}

RECURSIVE CountChannels(_, _, _, _, _, _)
\* lines 421-439: one count_foci_in_nuclei call per valid channel
CountChannels(chs, chin, nuclei_mask, nuc_key, fs, dfs) ==
    IF chs = <<>> THEN [raised |-> FALSE, dfs |-> dfs, fs |-> fs]
    ELSE LET res == count_foci_in_nuclei(nuclei_mask, chin[Head(chs)].mask, nuc_key, fs)
         IN IF res.raised THEN [raised |-> TRUE, dfs |-> dfs, fs |-> res.fs]
            ELSE CountChannels(Tail(chs), chin, nuclei_mask, nuc_key, res.fs,
                               Append(dfs, RenameRows(res.rows, Head(chs))))

RECURSIVE Combinations(_, _)
\* itertools.combinations(s, r), in its order
Combinations(s, r) ==
    IF r = 0 THEN << <<>> >>
    ELSE IF Len(s) < r THEN <<>>
    ELSE LET with == Combinations(Tail(s), r - 1)
         IN [i \in 1..Len(with) |-> <<Head(s)>> \o with[i]] \o Combinations(Tail(s), r)

RECURSIVE SubsetsFrom(_, _, _)
\* lines 459-460: for r in range(min, max + 1): for subset in combinations(names, r)
SubsetsFrom(names, r, max_subset_size) ==
    IF r > max_subset_size THEN <<>>
    ELSE Combinations(names, r) \o SubsetsFrom(names, r + 1, max_subset_size)

RECURSIVE JoinPlus(_)
\* "+".join(subset)
JoinPlus(subset) ==
    IF Len(subset) = 1 THEN subset[1]
    ELSE subset[1] \o "+" \o JoinPlus(Tail(subset))

IntersectionName(nuc_key, subset_str) ==
    "intersection_" \o nuc_key \o "_" \o subset_str \o ".tif"
LabeledName(nuc_key) == nuc_key \o "_labeled_nuclei.png"

\* lines 482-485: count_foci_in_nuclei called with four arguments; the
\* fifth, temp_folder, has no default, so the call raises TypeError.
count_foci_in_nuclei_4args(nuclei_labels, intersection_mask, nuc_key, fs) ==
    [raised |-> TRUE, rows |-> <<>>, fs |-> fs]

RECURSIVE Intersections(_, _, _, _, _, _)
\* lines 459-513: one intersection mask file and one count per subset
Intersections(subsets, chin, nuclei_mask, nuc_key, fs, dfs) ==
    IF subsets = <<>> THEN [raised |-> FALSE, dfs |-> dfs, fs |-> fs]
    ELSE LET subset_str == JoinPlus(Head(subsets))
             saved == SaveFile(fs, IntersectionName(nuc_key, subset_str))
             res == count_foci_in_nuclei_4args(measure_label(nuclei_mask), <<>>,
                                               nuc_key, saved)
         IN IF res.raised THEN [raised |-> TRUE, dfs |-> dfs, fs |-> res.fs]
            ELSE Intersections(Tail(subsets), chin, nuclei_mask, nuc_key, res.fs,
                               Append(dfs, RenameRows(res.rows, subset_str)))

\* Returns [rows, fs, caught]: the records returned, the results folder
\* afterwards, and whether the except clause of line 531 ran.
process_nuclei_image(nuc_key, nuclei_mask, listed, chin, meta, coloc, fs) ==
    IF nuc_key \notin meta
    THEN [rows |-> <<>>, fs |-> fs, caught |-> FALSE]
    ELSE
    LET fs1 == SaveFile(MkTemp(fs), LabeledName(nuc_key))
        valid == LoadChannelMasks(nuclei_mask, listed, chin)
        names == SelectSeq2(ChannelOrder, valid)
    IN  IF valid = {}
        THEN [rows |-> <<>>, fs |-> fs1, caught |-> FALSE]
        ELSE
        LET single == CountChannels(names, chin, nuclei_mask, nuc_key, fs1, <<>>)
        IN  IF single.raised
            THEN [rows |-> <<>>, fs |-> single.fs, caught |-> TRUE]
            ELSE
            LET df_single == MergeAll(single.dfs)
            IN  IF ~coloc
                THEN [rows |-> df_single, fs |-> single.fs, caught |-> FALSE]
                ELSE
                LET inter == Intersections(SubsetsFrom(names, 2, Len(names)), chin,
                                           nuclei_mask, nuc_key, single.fs, <<>>)
                IN  IF inter.raised
                    THEN [rows |-> <<>>, fs |-> inter.fs, caught |-> TRUE]
                    ELSE IF inter.dfs = <<>> \/ MergeAll(inter.dfs) = <<>>
                    THEN [rows |-> df_single, fs |-> inter.fs, caught |-> FALSE]
                    ELSE [rows |-> MergeOuter(df_single, MergeAll(inter.dfs)),
                          fs |-> inter.fs, caught |-> FALSE]

(***************************************************************************)
(* Prompts: input(...).strip().lower() over the answers a user may type.   *)
(***************************************************************************)
Answers == {"yes", "y", "no", "n", " YES", "No ", "", "maybe"}

StripLower(a) ==
    CASE a = " YES" -> "yes"
      [] a = "No " -> "no"
      [] OTHER -> a

Idle == "idle"              \* the position of a script that does not run
NotAsked == "<not asked>"   \* a prompt that has not been answered

\* a test of the answer against 'no' alone
CancelsNoOnly(a) == a = "no"

\* the start prompts of stages 1, 3 and 5 test the answer against ('no', 'n')
Cancels(a) == a \in {"no", "n"}

(***************************************************************************)
(* process_image (1_select_channels.py 76-373): the parameters.            *)
(***************************************************************************)
\* what the user may type at an int(input(...)) prompt
FileTypeTokens == {"0", "1", "3", "4", "abc"}
ChannelTokens == {"0", "1", "3", "13", "abc"}
NumFociTokens == {"0", "1", "2", "abc"}

\* int(): the value of a decimal literal; anything else raises ValueError
int(tok) ==
    CASE tok = "0" -> [ok |-> TRUE, val |-> 0]
      [] tok = "1" -> [ok |-> TRUE, val |-> 1]
      [] tok = "2" -> [ok |-> TRUE, val |-> 2]
      [] tok = "3" -> [ok |-> TRUE, val |-> 3]
      [] tok = "4" -> [ok |-> TRUE, val |-> 4]
      [] tok = "13" -> [ok |-> TRUE, val |-> 13]
      [] OTHER -> [ok |-> FALSE, val |-> 0]

\* str() of a small number, as the f-strings format it
NumStr(n) ==
    CASE n = 0 -> "0" [] n = 1 -> "1" [] n = 2 -> "2" [] n = 3 -> "3"
      [] n = 4 -> "4" [] n = 5 -> "5" [] n = 6 -> "6" [] n = 7 -> "7"
      [] n = 8 -> "8" [] n = 9 -> "9" [] n = 10 -> "10" [] n = 11 -> "11"
      [] n = 12 -> "12" [] OTHER -> "13"

\* range(1, 14)
ChannelRangeWide == 1..13

\* range(1, 13)
ChannelRange == 1..12

ImageStems == <<"img_a", "img_b", "img_c", "img_d">>

\* the entries os.listdir(input_folder) may yield: a name is prefix + stem + ext
FileKinds == { [prefix |-> "._", ext |-> ".tif"], [prefix |-> "", ext |-> ".txt"],
               [prefix |-> "", ext |-> ".nd2"], [prefix |-> "", ext |-> ".tif"] }

valid_exts == {".nd2", ".tif", ".tiff"}

(***************************************************************************)
(* The foci_assay folder of one input folder: whether it exists, its       *)
(* directories, the lines of 1_log.txt and image_metadata.txt, and the     *)
(* projection files with their content.                                    *)
(***************************************************************************)
NoFile == <<"<no file>">>

AbsentAssay == [exists |-> FALSE, dirs |-> {}, log |-> NoFile, metadata |-> NoFile,
                files |-> <<>>]

\* the results of an earlier run
OldAssay == [exists |-> TRUE, dirs |-> {"Nuclei", "Foci/Foci_1_Channel_1"},
             log |-> <<"old">>, metadata |-> <<"old">>,
             files |-> [p \in {"Nuclei/img_a_nuclei_projection.tif",
                               "Foci/Foci_1_Channel_1/img_a_foci_projection.tif"}
                           |-> <<"old", 0>>]]

AssayStates == {AbsentAssay, OldAssay}

\* lines 171-173
FociDirName(i, channel) == "Foci/Foci_" \o NumStr(i) \o "_Channel_" \o NumStr(channel)

\* lines 169-175: foci_folders[channel] = folder_name, a later entry of the
\* same channel replacing the earlier one
RECURSIVE FociFolders(_, _, _)
FociFolders(chs, i, acc) ==
    IF i > Len(chs) THEN acc
    ELSE FociFolders(chs, i + 1,
             [c \in (DOMAIN acc) \cup {chs[i]} |->
                 IF c = chs[i] THEN FociDirName(i, chs[i]) ELSE acc[c]])

\* lines 151-187: mkdir foci_assay, open 1_log.txt with mode 'w', mkdir Nuclei
\* and the foci folders, open image_metadata.txt with mode 'w' and write its
\* two header lines
OpenAssay(assay, chs) ==
    [exists |-> TRUE,
     dirs |-> assay.dirs \cup {"Nuclei"} \cup {FociDirName(i, chs[i]) : i \in 1..Len(chs)},
     log |-> <<>>,
     metadata |-> <<"Image Metadata:", "================">>,
     files |-> assay.files]

\* IJ.saveAs: the file is created or replaced
SaveAs(files, path, content) ==
    [p \in (DOMAIN files) \cup {path} |-> IF p = path THEN content ELSE files[p]]

\* lines 279-281 and 344-346
NucleiOut(base_name) == "Nuclei/" \o base_name \o "_nuclei_projection.tif"

\* lines 307-308 and 360-361
FociOut(foci_folder, base_name) == foci_folder \o "/" \o base_name \o "_foci_projection.tif"

RECURSIVE SaveFoci(_, _, _, _, _)
\* lines 289-313 and 352-364: one projection per selected foci channel
SaveFoci(files, chs, i, foci_dirs, base_name) ==
    IF i > Len(chs) THEN files
    ELSE SaveFoci(SaveAs(files, FociOut(foci_dirs[chs[i]], base_name), <<"foci", chs[i]>>),
                  chs, i + 1, foci_dirs, base_name)

\* the paths of the projections of one image
FociPaths(chs, foci_dirs, base_name) ==
    { FociOut(foci_dirs[chs[i]], base_name) : i \in 1..Len(chs) }

\* lines 249-250: ND2 files and Z-stack TIFFs
ZStackBranch(ext, ftype) == ext = ".nd2" \/ (ext \in {".tif", ".tiff"} /\ ftype \in {1, 2})

\* a check of the nuclei channel only
ChannelsExceedNucleiOnly(nuc, chs, channels) == nuc > channels

\* lines 252-254 and 328-330
ChannelsExceed(nuc, chs, channels) ==
    nuc > channels \/ \E i \in 1..Len(chs) : chs[i] > channels

(***************************************************************************)
(* select_channel_name and process_image (1_select_channels.py 76-399).    *)
(***************************************************************************)
SelectVars(pc, fs) ==
    /\ s_pc = pc
    /\ s_error = ""
    /\ start_analysis = NotAsked
    /\ valid_folders = fs
    /\ file_type = 0
    /\ nuclei_channel = 0
    /\ num_foci_channels = 0
    /\ foci_channels = <<>>
    /\ s_fidx = 1
    /\ s_nfiles = 0
    /\ s_idx = 1
    /\ response = NotAsked
    /\ s_before = AbsentAssay
    /\ s_disk = AbsentAssay
    /\ s_handlers = {}
    /\ s_visited = <<>>

\* stage 1 is not the script that runs
SelectIdle == SelectVars(Idle, <<>>)

\* lines 381-386: the folders validate_folders kept are the environment's
SelectStart == \E n \in 0..MaxFolders : SelectVars("start", SubSeq(AllFolders, 1, n))

SelectRaise(e) ==
    /\ s_pc' = "raised"
    /\ s_error' = e

\* lines 388-395: the start prompt
S_StartPrompt ==
    /\ s_pc = "start"
    /\ \E answer \in Answers :
        /\ start_analysis' = StripLower(answer)
        /\ IF Cancels(StripLower(answer))
           THEN SelectRaise("Analysis canceled by user.")
           ELSE IF StripLower(answer) \notin {"yes", "y", "no", "n"}
           THEN SelectRaise("Incorrect input. Please enter yes/no")
           ELSE s_pc' = "file_type" /\ s_error' = s_error
    /\ UNCHANGED <<valid_folders, file_type, nuclei_channel, num_foci_channels,
                   foci_channels, s_fidx, s_nfiles, s_idx, response, s_before,
                   s_disk, s_handlers, s_visited>>
    /\ UNCHANGED notS

\* lines 104-111
S_FileType ==
    /\ s_pc = "file_type"
    /\ \E tok \in FileTypeTokens :
        IF ~int(tok).ok
        THEN SelectRaise("invalid literal for int()") /\ UNCHANGED file_type
        ELSE /\ file_type' = int(tok).val
             /\ IF int(tok).val \notin {1, 2, 3}
                THEN SelectRaise("Invalid file type selection (must be 1-3).")
                ELSE s_pc' = "nuclei_channel" /\ s_error' = s_error
    /\ UNCHANGED <<start_analysis, valid_folders, nuclei_channel, num_foci_channels,
                   foci_channels, s_fidx, s_nfiles, s_idx, response, s_before,
                   s_disk, s_handlers, s_visited>>
    /\ UNCHANGED notS

\* lines 113-118
S_NucleiChannel ==
    /\ s_pc = "nuclei_channel"
    /\ \E tok \in ChannelTokens :
        IF ~int(tok).ok
        THEN SelectRaise("invalid literal for int()") /\ UNCHANGED nuclei_channel
        ELSE /\ nuclei_channel' = int(tok).val
             /\ IF int(tok).val \notin ChannelRange
                THEN SelectRaise("Invalid channel number for Nuclei (must be 1-12).")
                ELSE s_pc' = "num_foci" /\ s_error' = s_error
    /\ UNCHANGED <<start_analysis, valid_folders, file_type, num_foci_channels,
                   foci_channels, s_fidx, s_nfiles, s_idx, response, s_before,
                   s_disk, s_handlers, s_visited>>
    /\ UNCHANGED notS

\* lines 120-125
S_NumFoci ==
    /\ s_pc = "num_foci"
    /\ \E tok \in NumFociTokens :
        IF ~int(tok).ok
        THEN SelectRaise("invalid literal for int()") /\ UNCHANGED num_foci_channels
        ELSE /\ num_foci_channels' = int(tok).val
             /\ IF int(tok).val < 1
                THEN SelectRaise("Number of Foci channels must be at least 1.")
                ELSE s_pc' = "foci_channel" /\ s_error' = s_error
    /\ UNCHANGED <<start_analysis, valid_folders, file_type, nuclei_channel,
                   foci_channels, s_fidx, s_nfiles, s_idx, response, s_before,
                   s_disk, s_handlers, s_visited>>
    /\ UNCHANGED notS

\* lines 127-137: one pass of the loop over range(num_foci_channels)
S_FociChannel ==
    /\ s_pc = "foci_channel"
    /\ \E tok \in ChannelTokens :
        IF ~int(tok).ok
        THEN SelectRaise("invalid literal for int()") /\ UNCHANGED foci_channels
        ELSE IF int(tok).val \notin ChannelRange
        THEN SelectRaise("Invalid channel number for Foci (must be 1-12).")
             /\ UNCHANGED foci_channels
        ELSE /\ foci_channels' = Append(foci_channels, int(tok).val)
             /\ s_pc' = IF Len(foci_channels) + 1 = num_foci_channels
                        THEN "folder" ELSE "foci_channel"
             /\ s_error' = s_error
    /\ UNCHANGED <<start_analysis, valid_folders, file_type, nuclei_channel,
                   num_foci_channels, s_fidx, s_nfiles, s_idx, response, s_before,
                   s_disk, s_handlers, s_visited>>
    /\ UNCHANGED notS

\* lines 140-187: the next input folder, up to its file loop.  Whether the
\* folder already holds a foci_assay is the environment's choice.
S_Folder ==
    /\ s_pc = "folder"
    /\ IF s_fidx > Len(valid_folders)
       THEN /\ s_pc' = "done"
            /\ UNCHANGED <<s_error, s_nfiles, s_idx, response, s_before, s_disk,
                           s_handlers, s_visited>>
       ELSE \E before \in AssayStates, answer \in Answers, n \in 0..MaxFiles :
            LET resp == IF before.exists THEN StripLower(answer) ELSE NotAsked IN
            /\ s_before' = before
            /\ response' = resp
            /\ s_visited' = <<>>
            /\ s_idx' = 1
            /\ IF before.exists /\ resp = "no"
               THEN /\ SelectRaise("Analysis canceled by user.")
                    /\ s_disk' = before
                    /\ s_nfiles' = 0
                    /\ UNCHANGED s_handlers
               ELSE /\ s_disk' = OpenAssay(before, foci_channels)
                    /\ s_handlers' = s_handlers \cup {valid_folders[s_fidx]}
                    /\ s_nfiles' = n
                    /\ s_pc' = "image"
                    /\ UNCHANGED s_error
    /\ UNCHANGED <<start_analysis, valid_folders, file_type, nuclei_channel,
                   num_foci_channels, foci_channels, s_fidx>>
    /\ UNCHANGED notS


\* lines 195-370: one entry of os.listdir(input_folder).  The entry's name,
\* whether ImageJ opens it and its number of channels are the environment's.
S_Image ==
    /\ s_pc = "image"
    /\ s_idx <= s_nfiles
    /\ \E kind \in FileKinds, opens \in BOOLEAN, channels \in 1..MaxChannels :
        LET base_name == kind.prefix \o ImageStems[s_idx]
            filename == base_name \o kind.ext
            foci_folders == FociFolders(foci_channels, 1, <<>>)
            listed == kind.prefix = "" /\ kind.ext \in valid_exts
            exceed == ChannelsExceed(nuclei_channel, foci_channels, channels)
            with_meta == [s_disk EXCEPT !.metadata = Append(@, "Image Name: " \o filename)]
            entry == [name |-> filename, base_name |-> base_name, opened |-> FALSE,
                      channels |-> 0, exceed |-> FALSE, written |-> {}]
        IN IF ~listed
           THEN /\ s_disk' = s_disk
                /\ s_visited' = Append(s_visited, entry)
           ELSE IF ~opens
           THEN /\ s_disk' = [s_disk EXCEPT !.log = Append(@, "Failed to open image")]
                /\ s_visited' = Append(s_visited, entry)
           ELSE IF exceed
           THEN /\ s_disk' = [with_meta EXCEPT !.log = Append(@,
                                 IF ZStackBranch(kind.ext, file_type)
                                 THEN "Specified channels exceed available"
                                 ELSE "Requested channels exceed total split channels")]
                /\ s_visited' = Append(s_visited,
                       [entry EXCEPT !.opened = TRUE, !.channels = channels,
                                     !.exceed = TRUE])
           ELSE /\ s_disk' = [with_meta EXCEPT !.files =
                                 SaveFoci(SaveAs(@, NucleiOut(base_name),
                                                 <<"nuclei", nuclei_channel>>),
                                          foci_channels, 1, foci_folders, base_name)]
                /\ s_visited' = Append(s_visited,
                       [entry EXCEPT !.opened = TRUE, !.channels = channels,
                                     !.written = {NucleiOut(base_name)} \cup
                                         FociPaths(foci_channels, foci_folders, base_name)])
    /\ s_idx' = s_idx + 1
    /\ UNCHANGED <<s_pc, s_error, start_analysis, valid_folders, file_type,
                   nuclei_channel, num_foci_channels, foci_channels, s_fidx,
                   s_nfiles, response, s_before, s_handlers>>
    /\ UNCHANGED notS

\* line 373: the listing is exhausted, the metadata file is closed
S_FolderDone ==
    /\ s_pc = "image"
    /\ s_idx > s_nfiles
    /\ s_fidx' = s_fidx + 1
    /\ s_pc' = "folder"
    /\ UNCHANGED <<s_error, start_analysis, valid_folders, file_type, nuclei_channel,
                   num_foci_channels, foci_channels, s_nfiles, s_idx, response,
                   s_before, s_disk, s_handlers, s_visited>>
    /\ UNCHANGED notS

NextSelect ==
    \/ S_StartPrompt \/ S_FileType \/ S_NucleiChannel \/ S_NumFoci \/ S_FociChannel
    \/ S_Folder \/ S_Image \/ S_FolderDone

(***************************************************************************)
(* Stage 3: main_filter_foci (3_foci_mask_generation.py 317-382) and       *)
(* main_filter_imgs (3_filter_imgs.py 291-330).                            *)
(***************************************************************************)
\* what a listed base folder may hold: foci_assay, foci_assay/Foci, the
\* subfolders of Foci that hold TIF files, TIF files directly in Foci, and a
\* Nuclei_StarDist_mask_processed_<timestamp> folder with TIF files
FilterLayouts ==
    { [foci_assay |-> FALSE, Foci |-> FALSE, subfolders |-> {}, foci_tifs |-> FALSE,
       nuclei |-> FALSE],
      [foci_assay |-> TRUE, Foci |-> FALSE, subfolders |-> {}, foci_tifs |-> FALSE,
       nuclei |-> TRUE],
      [foci_assay |-> TRUE, Foci |-> TRUE, subfolders |-> {"Foci_1_Channel_1"},
       foci_tifs |-> FALSE, nuclei |-> TRUE],
      [foci_assay |-> TRUE, Foci |-> TRUE, subfolders |-> {}, foci_tifs |-> TRUE,
       nuclei |-> TRUE],
      [foci_assay |-> TRUE, Foci |-> TRUE,
       subfolders |-> {"Foci_1_Channel_1", "Foci_2_Channel_2"}, foci_tifs |-> TRUE,
       nuclei |-> FALSE] }

\* 3_foci_mask_generation.py 29-93 and validate_folders.py 133-180: the keys
\* of result[folder]
ValidateKeys(layout) ==
    IF ~layout.foci_assay THEN {}
    ELSE {"foci_assay_folder"}
         \cup (IF layout.Foci THEN {"foci_folder"} ELSE {})
         \cup (IF layout.nuclei THEN {"nuclei_folder", "nuclei_files"} ELSE {})
         \cup (IF layout.Foci /\ layout.foci_tifs THEN {"foci_files"} ELSE {})

\* what the user may type at the subfolder prompt
ChoiceTokens == {"0", "1", "2", "3", "abc"}

\* the keys filter_in_folder reads, in the order of 3_filter_imgs.py 127-131
FilterInFolderKeys == <<"foci_folder", "nuclei_folder", "foci_files", "nuclei_files",
                        "foci_assay_folder">>

FilterVars(pc, script, paths, layout) ==
    /\ m_pc = pc
    /\ m_error = ""
    /\ m_script = script
    /\ m_paths = paths
    /\ m_layout = layout
    /\ folders = <<>>
    /\ all_subfolders = {}
    /\ chosen_subfolder = ""
    /\ start_processing = NotAsked
    /\ m_idx = 1
    /\ m_processed = <<>>

\* stage 3 is not the script that runs
FilterIdle == FilterVars(Idle, "", <<>>, <<>>)

\* the listed folders and what they hold are the environment's
FilterStart ==
    \E script \in {"filter_foci", "filter_imgs"}, n \in 0..MaxFolders :
        \E layout \in [Range(SubSeq(AllFolders, 1, n)) -> FilterLayouts] :
            FilterVars("start", script, SubSeq(AllFolders, 1, n), layout)

FilterRaise(e) ==
    /\ m_pc' = "raised"
    /\ m_error' = e

\* 3_foci_mask_generation.py 323-334
MF_Validate ==
    /\ m_pc = "start"
    /\ m_script = "filter_foci"
    /\ folders' = [f \in Range(m_paths) |-> ValidateKeys(m_layout[f])]
    /\ IF m_paths = <<>>
       THEN FilterRaise("No valid folders found in JSON. Exiting.")
       ELSE m_pc' = "subfolders" /\ m_error' = m_error
    /\ UNCHANGED <<m_script, m_paths, m_layout, all_subfolders, chosen_subfolder,
                   start_processing, m_idx, m_processed>>
    /\ UNCHANGED notM

\* 3_foci_mask_generation.py 336-348: folders[key]['foci_folder'] of every
\* listed folder
MF_Subfolders ==
    /\ m_pc = "subfolders"
    /\ IF \E i \in 1..Len(m_paths) : "foci_folder" \notin folders[m_paths[i]]
       THEN FilterRaise("KeyError: 'foci_folder'") /\ UNCHANGED all_subfolders
       ELSE /\ all_subfolders' = UNION {m_layout[f].subfolders : f \in Range(m_paths)}
            /\ m_pc' = IF UNION {m_layout[f].subfolders : f \in Range(m_paths)} = {}
                       THEN "returned" ELSE "choice"
            /\ m_error' = m_error
    /\ UNCHANGED <<m_script, m_paths, m_layout, folders, chosen_subfolder,
                   start_processing, m_idx, m_processed>>
    /\ UNCHANGED notM

\* 3_foci_mask_generation.py 350-366
MF_Choice ==
    /\ m_pc = "choice"
    /\ \E tok \in ChoiceTokens :
        LET all_subfolders_list == SelectSeq2(ChannelOrder, all_subfolders)
            choice_idx == int(tok).val - 1
        IN IF ~int(tok).ok \/ choice_idx < 0 \/ choice_idx >= Len(all_subfolders_list)
           THEN FilterRaise("Invalid choice. Please run again.")
                /\ UNCHANGED chosen_subfolder
           ELSE /\ chosen_subfolder' = all_subfolders_list[choice_idx + 1]
                /\ m_pc' = "proceed"
                /\ m_error' = m_error
    /\ UNCHANGED <<m_script, m_paths, m_layout, folders, all_subfolders,
                   start_processing, m_idx, m_processed>>
    /\ UNCHANGED notM

\* 3_foci_mask_generation.py 368-374
MF_Proceed ==
    /\ m_pc = "proceed"
    /\ m_script = "filter_foci"
    /\ \E answer \in Answers :
        /\ start_processing' = StripLower(answer)
        /\ IF Cancels(StripLower(answer))
           THEN FilterRaise("Analysis canceled by user.")
           ELSE IF StripLower(answer) \notin {"yes", "y", "no", "n"}
           THEN FilterRaise("Incorrect input. Please enter yes/no.")
           ELSE m_pc' = "filter" /\ m_error' = m_error
    /\ UNCHANGED <<m_script, m_paths, m_layout, folders, all_subfolders,
                   chosen_subfolder, m_idx, m_processed>>
    /\ UNCHANGED notM

\* 3_foci_mask_generation.py 377-382 with filter_foci (172-314): one listed
\* folder, or the end of the loop
MF_Filter ==
    /\ m_pc = "filter"
    /\ m_script = "filter_foci"
    /\ IF m_idx > Len(m_paths)
       THEN m_pc' = "done" /\ UNCHANGED <<m_error, m_idx, m_processed>>
       ELSE LET key == m_paths[m_idx] IN
            IF "foci_folder" \notin folders[key]
            THEN FilterRaise("KeyError: 'foci_folder'") /\ UNCHANGED <<m_idx, m_processed>>
            ELSE /\ m_processed' = IF chosen_subfolder \in m_layout[key].subfolders
                                   THEN Append(m_processed, key) ELSE m_processed
                 /\ m_idx' = m_idx + 1
                 /\ UNCHANGED <<m_pc, m_error>>
    /\ UNCHANGED <<m_script, m_paths, m_layout, folders, all_subfolders,
                   chosen_subfolder, start_processing>>
    /\ UNCHANGED notM

\* 3_filter_imgs.py 306-317 with validate_path_files(step=3)
MI_Validate ==
    /\ m_pc = "start"
    /\ m_script = "filter_imgs"
    /\ IF m_paths = <<>>
       THEN FilterRaise("The JSON file does not contain any folder paths.")
            /\ UNCHANGED folders
       ELSE /\ folders' = [f \in Range(m_paths) |-> ValidateKeys(m_layout[f])]
            /\ m_pc' = "proceed"
            /\ m_error' = m_error
    /\ UNCHANGED <<m_script, m_paths, m_layout, all_subfolders, chosen_subfolder,
                   start_processing, m_idx, m_processed>>
    /\ UNCHANGED notM

\* 3_filter_imgs.py 319-324
MI_Proceed ==
    /\ m_pc = "proceed"
    /\ m_script = "filter_imgs"
    /\ \E answer \in Answers :
        /\ start_processing' = StripLower(answer)
        /\ IF Cancels(StripLower(answer))
           THEN FilterRaise("Analysis canceled by user.")
           ELSE IF StripLower(answer) \notin {"yes", "y", "no", "n"}
           THEN FilterRaise("Incorrect input. Please enter yes/no.")
           ELSE m_pc' = "filter" /\ m_error' = m_error
    /\ UNCHANGED <<m_script, m_paths, m_layout, folders, all_subfolders,
                   chosen_subfolder, m_idx, m_processed>>
    /\ UNCHANGED notM

\* 3_filter_imgs.py 326-330 with filter_in_folder (102-288): one listed
\* folder, or the end of the loop
MI_Filter ==
    /\ m_pc = "filter"
    /\ m_script = "filter_imgs"
    /\ IF m_idx > Len(m_paths)
       THEN m_pc' = "done" /\ UNCHANGED <<m_error, m_idx, m_processed>>
       ELSE LET key == m_paths[m_idx]
                missing == {i \in 1..Len(FilterInFolderKeys) :
                               FilterInFolderKeys[i] \notin folders[key]}
            IN IF missing # {}
               THEN /\ FilterRaise("KeyError: '" \o
                          FilterInFolderKeys[CHOOSE i \in missing : \A j \in missing : i <= j]
                          \o "'")
                    /\ UNCHANGED <<m_idx, m_processed>>
               ELSE /\ m_processed' = Append(m_processed, key)
                    /\ m_idx' = m_idx + 1
                    /\ UNCHANGED <<m_pc, m_error>>
    /\ UNCHANGED <<m_script, m_paths, m_layout, folders, all_subfolders,
                   chosen_subfolder, start_processing>>
    /\ UNCHANGED notM

NextFilter ==
    \/ MF_Validate \/ MF_Subfolders \/ MF_Choice \/ MF_Proceed \/ MF_Filter
    \/ MI_Validate \/ MI_Proceed \/ MI_Filter

(***************************************************************************)
(* main_summarize_res (4_foci_quantification.py 536-628).                  *)
(***************************************************************************)
\* the csv has not been written (lines 615-619: a written csv has a row)
NoCsv == <<>>

\* string order of two decimal strings (sort_values on a column of strings)
RECURSIVE StrLess(_, _)
StrLess(a, b) ==
    IF b = <<>> THEN FALSE
    ELSE IF a = <<>> THEN TRUE
    ELSE IF Head(a) # Head(b) THEN Head(a) < Head(b)
    ELSE StrLess(Tail(a), Tail(b))

KeyIndex(k) == CHOOSE i \in 1..Len(AllKeys) : AllKeys[i] = k

\* the order of sort_values(by=["Image Key", "Nucleus"])
RowLess(r, s) ==
    \/ KeyIndex(r.Image_Key) < KeyIndex(s.Image_Key)
    \/ r.Image_Key = s.Image_Key /\ StrLess(r.Nucleus, s.Nucleus)

RECURSIVE InsertRow(_, _)
InsertRow(sorted, r) ==
    IF sorted = <<>> THEN <<r>>
    ELSE IF RowLess(r, Head(sorted)) THEN <<r>> \o sorted
    ELSE <<Head(sorted)>> \o InsertRow(Tail(sorted), r)

\* a save that keeps one row per image (drop_duplicates on "Image Key")
RECURSIVE SortRowsPerImage(_)
SortRowsPerImage(rows) ==
    IF rows = <<>> THEN <<>>
    ELSE LET rest == SortRowsPerImage(SubSeq(rows, 1, Len(rows) - 1))
             r == rows[Len(rows)]
         IN IF \E i \in 1..Len(rest) : rest[i].Image_Key = r.Image_Key
            THEN rest
            ELSE InsertRow(rest, r)

\* lines 620-621: pd.DataFrame(all_results).sort_values(by=["Image Key", "Nucleus"])
RECURSIVE SortRows(_)
SortRows(rows) ==
    IF rows = <<>> THEN <<>>
    ELSE InsertRow(SortRows(SubSeq(rows, 1, Len(rows) - 1)), rows[Len(rows)])

QuantVars(pc, dicts) ==
    /\ q_pc = pc
    /\ q_error = ""
    /\ proceed_processing = NotAsked
    /\ folder_dicts = dicts
    /\ perform_colocalization = FALSE
    /\ f_idx = 1
    /\ handlers = {}
    /\ metadata = {}
    /\ channels_dict = <<>>
    /\ nuclei_files = <<>>
    /\ q_idx = 1
    /\ all_results = <<>>
    /\ results_fs = EmptyResultsFs
    /\ csv = NoCsv
    /\ csv_saved = {}
    /\ visited = <<>>

\* stage 4 is not the script that runs
QuantIdle == QuantVars(Idle, <<>>)

\* lines 546-548: the folders validate_folders kept are the environment's
QuantStart == \E n \in 0..MaxFolders : QuantVars("start", SubSeq(AllFolders, 1, n))

QuantRaise(e) ==
    /\ q_pc' = "raised"
    /\ q_error' = e

\* lines 548-553: no valid folder, or the start prompt
Q_StartPrompt ==
    /\ q_pc = "start"
    /\ IF folder_dicts = <<>>
       THEN QuantRaise("No valid folders found in JSON.")
            /\ UNCHANGED proceed_processing
       ELSE \E answer \in Answers :
            /\ proceed_processing' = StripLower(answer)
            /\ IF StripLower(answer) \notin {"yes", "y"}
               THEN QuantRaise("Processing canceled by user.")
               ELSE q_pc' = "coloc" /\ q_error' = q_error
    /\ UNCHANGED <<folder_dicts, perform_colocalization, f_idx, handlers, metadata,
                   channels_dict, nuclei_files, q_idx, all_results, results_fs, csv,
                   csv_saved, visited>>
    /\ UNCHANGED notQ

\* lines 554-557
Q_ColocPrompt ==
    /\ q_pc = "coloc"
    /\ \E answer \in Answers :
        perform_colocalization' = (StripLower(answer) \in {"yes", "y"})
    /\ q_pc' = "folder"
    /\ UNCHANGED <<q_error, folder_dicts, f_idx, handlers, metadata, channels_dict,
                   nuclei_files, q_idx, all_results, results_fs, csv, csv_saved, visited>>
    /\ UNCHANGED <<proceed_processing, notQ>>

\* lines 559-587 and 628: the next base folder, up to its image loop.  What
\* the folder holds on disk is the environment's choice.
Q_Folder ==
    /\ q_pc = "folder"
    /\ IF f_idx > Len(folder_dicts)
       THEN /\ q_pc' = "done"
            /\ UNCHANGED <<q_error, f_idx, handlers, metadata, channels_dict,
                           nuclei_files, q_idx, all_results, results_fs, csv,
                           visited>>
       ELSE \E metadata_exists \in BOOLEAN, gathered \in BOOLEAN, n \in 0..MaxImages :
            LET files == SubSeq(AllKeys, 1, n) IN
            /\ handlers' = handlers \cup {folder_dicts[f_idx]}
            /\ results_fs' = EmptyResultsFs      \* a new Results_<now> folder
            /\ csv' = NoCsv
            /\ visited' = <<>>
            /\ IF ~metadata_exists
               THEN /\ QuantRaise("There is no metadata file")
                    /\ UNCHANGED <<f_idx, metadata, channels_dict, nuclei_files,
                                   q_idx, all_results>>
               ELSE IF ~gathered \/ n = 0
               THEN /\ f_idx' = f_idx + 1
                    /\ UNCHANGED <<q_pc, q_error, metadata, channels_dict,
                                   nuclei_files, q_idx, all_results>>
               ELSE /\ metadata' \in SUBSET Range(files)
                    /\ channels_dict' \in [Range(files) -> SUBSET Channels]
                    /\ nuclei_files' = files
                    /\ q_idx' = 1
                    /\ all_results' = <<>>
                    /\ q_pc' = "image"
                    /\ UNCHANGED <<q_error, f_idx>>
    /\ UNCHANGED <<folder_dicts, perform_colocalization, csv_saved>>
    /\ UNCHANGED <<proceed_processing, notQ>>

\* a loop that stops at the first key without a foci file
NextIdxBreak(idx, total) == total + 1

\* lines 591-593: a key without any listed foci file is skipped (continue)
NextIdx(idx, total) == idx + 1

\* a loop that passes a file whose analysis failed to process_nuclei_image again
AfterImageRetry(idx, caught) == IF caught THEN idx ELSE idx + 1

\* lines 588 and 595-602: enumerate(nuclei_files) moves on to the next file
\* whatever process_nuclei_image returned
AfterImage(idx, caught) == idx + 1

\* lines 588-614: one iteration of the image loop
Q_Image ==
    /\ q_pc = "image"
    /\ q_idx <= Len(nuclei_files)
    /\ LET nuc_key == nuclei_files[q_idx]
           base == folder_dicts[f_idx]
           listed == channels_dict[nuc_key]
       IN IF listed = {}
          THEN /\ q_idx' = NextIdx(q_idx, Len(nuclei_files))
               /\ visited' = Append(visited,
                      [key |-> nuc_key, called |-> FALSE, meta |-> nuc_key \in metadata, nuclei |-> 0, valid |-> {},
                       caught |-> FALSE, rows |-> <<>>])
               /\ UNCHANGED <<all_results, results_fs>>
          ELSE \E nuclei_mask \in NucleiMasks, chin \in [listed -> ChannelInputs] :
               LET res == process_nuclei_image(nuc_key, nuclei_mask, listed, chin,
                              metadata, perform_colocalization, results_fs)
               IN /\ all_results' = all_results \o res.rows
                  /\ results_fs' = res.fs
                  /\ q_idx' = AfterImage(q_idx, res.caught)
                  /\ visited' = Append(visited,
                         [key |-> nuc_key, called |-> TRUE, meta |-> nuc_key \in metadata,
                          nuclei |-> IF nuc_key \in metadata
                                     THEN MaxLabel(measure_label(nuclei_mask)) ELSE 0,
                          valid |-> IF nuc_key \in metadata
                                    THEN LoadChannelMasks(nuclei_mask, listed, chin)
                                    ELSE {},
                          caught |-> res.caught, rows |-> res.rows])
    /\ UNCHANGED <<q_pc, q_error, folder_dicts, perform_colocalization, f_idx,
                   handlers, metadata, channels_dict, nuclei_files, csv, csv_saved>>
    /\ UNCHANGED <<proceed_processing, notQ>>

\* lines 615-627: after the last image of the folder
Q_Save ==
    /\ q_pc = "image"
    /\ q_idx > Len(nuclei_files)
    /\ LET base == folder_dicts[f_idx]
       IN /\ csv' = IF all_results = <<>> THEN csv
                    ELSE SortRows(all_results)
          /\ csv_saved' = IF all_results = <<>> THEN csv_saved
                          ELSE csv_saved \cup {base}
          /\ handlers' = handlers \ {base}
    /\ f_idx' = f_idx + 1
    /\ q_pc' = "folder"
    /\ metadata' = {}
    /\ channels_dict' = <<>>
    /\ nuclei_files' = <<>>
    /\ q_idx' = 1
    /\ all_results' = <<>>
    /\ UNCHANGED <<q_error, folder_dicts, perform_colocalization, results_fs, visited>>
    /\ UNCHANGED <<proceed_processing, notQ>>

NextQuant == Q_StartPrompt \/ Q_ColocPrompt \/ Q_Folder \/ Q_Image \/ Q_Save

(***************************************************************************)
(* The directory layout of one base folder.  A path is a sequence of       *)
(* components below the base folder; a component is a name, the timestamp  *)
(* that follows it (if any) and an extension (files only).                 *)
(***************************************************************************)
Dir(n) == [name |-> n, stamp |-> "", ext |-> ""]
Stamped(prefix, ts) == [name |-> prefix, stamp |-> ts, ext |-> ""]
File(stem, e) == [name |-> stem, stamp |-> "", ext |-> e]

\* datetime.now().strftime("%Y%m%d_%H%M%S") at successive runs
Stamps == <<"20250118_191928", "20250118_191955", "20250119_080000",
            "20250119_080107", "20250120_120000", "20250121_120000">>

\* the stamp of results an earlier, older run left
OldStamp == "20241231_235959"

\* Path(...).mkdir(parents=True, exist_ok=True) and os.makedirs(exist_ok=True)
makedirs(d, path) == d \cup {SubSeq(path, 1, k) : k \in 1..Len(path)}

\* os.listdir: the components directly below dir
listdir(d, dir) ==
    {p[Len(p)] : p \in {q \in d : Len(q) = Len(dir) + 1 /\ SubSeq(q, 1, Len(dir)) = dir}}

\* comparison of two timestamp strings; on well-formed stamps the string
\* order is the order in time
StampLess(a, b) ==
    LET all == <<OldStamp>> \o Stamps
        idx(s) == CHOOSE i \in 1..Len(all) : all[i] = s
    IN idx(a) < idx(b)

\* the stamped component with the greatest stamp
Latest(cs) == CHOOSE c \in cs : \A o \in cs : ~StampLess(c.stamp, o.stamp)

\* os.path.basename of the base folder
BaseName == "exp1"

\* the input images of the base folder
BaseImages == {File("img_a", ".nd2")}

\* ---- stage 1 (1_select_channels.py) ----------------------------------
\* lines 142-143
processed_folder == <<Dir("foci_assay")>>

\* lines 181-182
metadata_file_path == Append(processed_folder, File("image_metadata", ".txt"))

\* lines 140-373 for one input folder, with one foci channel selected
process_image(d) ==
    LET nuclei_folder == Append(processed_folder, Dir("Nuclei"))
        foci_folder == processed_folder \o <<Dir("Foci"), Dir("Foci_1_Channel_1")>>
        images == {c \in listdir(d, <<>>) : c.ext \in valid_exts}
    IN makedirs(makedirs(d, nuclei_folder), foci_folder)
         \cup {Append(processed_folder, File("1_log", ".txt")), metadata_file_path}
         \cup {Append(nuclei_folder, File(c.name \o "_nuclei_projection", ".tif")) : c \in images}
         \cup {Append(foci_folder, File(c.name \o "_foci_projection", ".tif")) : c \in images}

\* ---- stage 2 (2_nuclei_mask_generation.py) ---------------------------
\* lines 92-147: find_nuclei for one Nuclei folder
find_nuclei_folder(nuclei_folder, now) ==
    Append(SubSeq(nuclei_folder, 1, Len(nuclei_folder) - 1),
           Stamped("Nuclei_StarDist_mask_processed_", now))

\* lines 172-180: process_nuclei's folder for one input folder
process_nuclei_folder(input_folder, now) ==
    Append(SubSeq(input_folder, 1, Len(input_folder) - 1),
           Stamped("Final_Nuclei_Mask_", now))

\* lines 270-284 for one base folder: validate_folders, find_nuclei, process_nuclei
nuclei_mask_generation(d, now) ==
    LET nuclei_folder == <<Dir("foci_assay"), Dir("Nuclei")>>
        d0 == d \cup {<<File("2_val_log", ".txt")>>}
        output_folder == find_nuclei_folder(nuclei_folder, now)
        image_files == {c \in listdir(d, nuclei_folder) : c.ext = ".tif"}
        d1 == makedirs(d0, output_folder)
                \cup {Append(output_folder, File("2_log", ".txt"))}
                \cup {Append(output_folder, File(c.name \o "_StarDist_processed", ".tif")) :
                         c \in image_files}
        final_folder == process_nuclei_folder(output_folder, now)
    IN IF nuclei_folder \notin d THEN d0
       ELSE makedirs(d1, final_folder)
              \cup {Append(final_folder, File("nuclei_log", ".txt"))}
              \cup {Append(final_folder, File(c.name \o "_processed", ".tif")) :
                       c \in {x \in listdir(d1, output_folder) : x.ext \in {".tif", ".tiff"}}}

\* ---- stage 3 (3_foci_mask_generation.py) -----------------------------
\* lines 336-344: the subfolders of Foci
foci_subfolders(d) ==
    {c.name : c \in {x \in listdir(d, <<Dir("foci_assay"), Dir("Foci")>>) : x.ext = ""}}

\* lines 172-314: filter_foci for one base folder and the chosen subfolder
filter_foci(d, subfolder, now) ==
    LET foci_assay_folder == <<Dir("foci_assay")>>
        subfolder_path == foci_assay_folder \o <<Dir("Foci"), Dir(subfolder)>>
        foci_files == {c \in listdir(d, subfolder_path) : c.ext \in {".tif", ".tiff"}}
        foci_mask_folder == foci_assay_folder \o
                               <<Dir("Foci_Masks"), Stamped(subfolder \o "_", now)>>
    IN IF subfolder_path \notin d \/ foci_files = {} THEN d
       ELSE makedirs(d, foci_mask_folder)
              \cup {Append(foci_mask_folder, File("foci_log", ".log"))}
              \cup {Append(foci_mask_folder, File("processed_" \o c.name, c.ext)) :
                       c \in foci_files}

\* ---- stage 4 (4_foci_quantification.py) ------------------------------
\* lines 572-574
metadata_path == <<Dir("foci_assay"), Dir("selected_channels"), File("image_metadata", ".txt")>>

\* line 44: the directory searched for Final_Nuclei_Mask_ folders
nuclei_masks_dir(foci_assay_folder) == Append(foci_assay_folder, Dir("Nuclei_masks"))

\* lines 39-62
get_latest_nuclei_mask_folder(d, foci_assay_folder) ==
    LET nuclei_folder == nuclei_masks_dir(foci_assay_folder)
        nuclei_mask_folders == {c \in listdir(d, nuclei_folder) : c.name = "Final_Nuclei_Mask_"}
    IN IF nuclei_folder \notin d \/ nuclei_mask_folders = {}
       THEN [raised |-> TRUE, path |-> <<>>]
       ELSE [raised |-> FALSE, path |-> Append(nuclei_folder, Latest(nuclei_mask_folders))]

\* lines 65-104: the latest folder of each channel
get_latest_foci_folders(d, foci_assay_folder) ==
    LET foci_masks_folder == Append(foci_assay_folder, Dir("Foci_Masks"))
        foci_folders == {c \in listdir(d, foci_masks_folder) :
                            c.name \in {ch \o "_" : ch \in Channels} /\ c.stamp # ""}
        names == {c.name : c \in foci_folders}
    IN IF foci_masks_folder \notin d \/ foci_folders = {}
       THEN [raised |-> TRUE, paths |-> {}]
       ELSE [raised |-> FALSE,
             paths |-> {Append(foci_masks_folder,
                               Latest({c \in foci_folders : c.name = n})) : n \in names}]

\* line 622-623
output_csv(results_folder) == Append(results_folder, File("all_results_with_coloc_universal", ".csv"))

\* ---- stage 5 (5_graph_representation.py) -----------------------------
\* lines 32-73: (foci_folder, nuclei_folder) of the newest common stamp, or none
find_latest_foci_nuclei_folders(d, foci_analysis_path) ==
    LET dirs == {c \in listdir(d, foci_analysis_path) : c.ext = ""}
        foci_stamps == {c.stamp : c \in {x \in dirs : x.name = "Foci_count_results_"}}
        nuc_stamps == {c.stamp : c \in {x \in dirs : x.name = "Nuclei_count_results_"}}
        common_stamps == (foci_stamps \cap nuc_stamps) \ {""}
        newest == CHOOSE s \in common_stamps : \A o \in common_stamps : ~StampLess(s, o)
    IN IF foci_analysis_path \notin d \/ common_stamps = {}
       THEN [found |-> FALSE, foci_folder |-> <<>>, nuclei_folder |-> <<>>]
       ELSE [found |-> TRUE,
             foci_folder |-> Append(foci_analysis_path, Stamped("Foci_count_results_", newest)),
             nuclei_folder |-> Append(foci_analysis_path, Stamped("Nuclei_count_results_", newest))]

\* lines 128-130
foci_csv(foci_folder, base_name) ==
    Append(foci_folder, File(base_name \o "_Combined_Summary_foci", ".csv"))

nuclei_csv(nuclei_folder, base_name) ==
    Append(nuclei_folder, File(base_name \o "_Combined_Summary_nuclei", ".csv"))

\* lines 104-140: TRUE when two data frames are returned, FALSE for (None, None)
gather_data_for_folder(d, base_name) ==
    LET foci_analysis_path == <<Dir("foci_analysis")>>
        latest == find_latest_foci_nuclei_folders(d, foci_analysis_path)
    IN /\ foci_analysis_path \in d
       /\ latest.found
       /\ foci_csv(latest.foci_folder, base_name) \in d
       /\ nuclei_csv(latest.nuclei_folder, base_name) \in d

(***************************************************************************)
(* The latest of the timestamped folders of one directory.  A character is *)
(* its code; a timestamp suffix is the string strftime("%Y%m%d_%H%M%S")    *)
(* makes of a date-time.                                                   *)
(***************************************************************************)
\* the date-times at which a stage may have created its folder
DateTimes ==
    [Y : {2024, 2025}, m : {2, 10}, d : {9, 10}, H : {9, 10}, M : {0, 59}, S : {5, 40}]

RECURSIVE ZeroPad(_, _)
\* the decimal digits of n, zero-padded to width w, as character codes
ZeroPad(n, w) == IF w = 0 THEN <<>> ELSE Append(ZeroPad(n \div 10, w - 1), 48 + (n % 10))

\* datetime.strftime("%Y%m%d_%H%M%S")
strftime(dt) ==
    ZeroPad(dt.Y, 4) \o ZeroPad(dt.m, 2) \o ZeroPad(dt.d, 2) \o <<95>>
        \o ZeroPad(dt.H, 2) \o ZeroPad(dt.M, 2) \o ZeroPad(dt.S, 2)

(***************************************************************************)
(* validate_path_files (validate_folders.py 7-279).  A listed folder is    *)
(* what the checks look at: whether it exists, whether it holds a file     *)
(* with an image extension, whether it has foci_assay and foci_assay/      *)
(* Nuclei, and the suffixes of the folders of foci_assay that start with   *)
(* the nuclei prefix of the step and with 'Foci_Mask_'.  Listed paths that *)
(* exist are directories.                                                  *)
(***************************************************************************)
Steps == 1..5

\* a folder name from a run of a stage, and one made by hand ('..._old')
StampedSuffix == strftime(CHOOSE dt \in DateTimes : TRUE)
HandSuffix == <<111, 108, 100>>

SuffixSets == {{}, {StampedSuffix}, {HandSuffix}}

ListedFolders ==
    {f \in [exists : BOOLEAN, images : BOOLEAN, assay : BOOLEAN, Nuclei : BOOLEAN,
            nuclei : SuffixSets, foci : SuffixSets] :
        /\ ~f.exists => ~f.images /\ ~f.assay
        /\ ~f.assay => ~f.Nuclei /\ f.nuclei = {} /\ f.foci = {}}

\* the format '%Y%m%d_%H%M%S' matches the whole string
MatchesFormat(s) ==
    /\ Len(s) = 15
    /\ s[9] = 95
    /\ \A i \in (1..15) \ {9} : s[i] \in 48..57

Raised(e) == [raised |-> e, result |-> <<>>]
Returned(r) == [raised |-> "", result |-> r]

RECURSIVE ListedLoop(_, _, _)
\* lines 52-86: the folders kept, by their position in the list; the first
\* missing one raises
ListedLoop(folder_paths, step, i) ==
    IF i > Len(folder_paths) THEN Returned(<<>>)
    ELSE IF ~folder_paths[i].exists THEN Raised("ValueError")
    ELSE LET rest == ListedLoop(folder_paths, step, i + 1)
         IN IF rest.raised # "" THEN rest
            ELSE IF step = 1 /\ ~folder_paths[i].images THEN rest
            ELSE Returned(<<i>> \o rest.result)

\* lines 94-117
Step2Loop(folder_paths, kept) ==
    Returned(SelectSeq(kept, LAMBDA i : folder_paths[i].Nuclei))

RECURSIVE Step3Loop(_, _, _)
\* lines 119-194: strptime raises ValueError on a suffix of another form;
\* the result has a key for every folder the loop reached
Step3Loop(folder_paths, kept, k) ==
    IF k > Len(kept) THEN Returned(kept)
    ELSE LET f == folder_paths[kept[k]]
         IN IF f.assay /\ \E x \in f.nuclei : ~MatchesFormat(x)
            THEN Raised("ValueError")
            ELSE Step3Loop(folder_paths, kept, k + 1)

RECURSIVE Step4Loop(_, _, _, _)
\* lines 196-274: bound says whether star_dist_count has been assigned (line
\* 241, only where a Final_Nuclei_Mask_ folder was found); line 271 reads it
Step4Loop(folder_paths, kept, k, bound) ==
    IF k > Len(kept) THEN Returned(kept)
    ELSE LET f == folder_paths[kept[k]]
             bound1 == bound \/ f.nuclei # {}
         IN IF ~f.assay THEN Step4Loop(folder_paths, kept, k + 1, bound)
            ELSE IF \E x \in f.nuclei : ~MatchesFormat(x) THEN Raised("ValueError")
            ELSE IF \E x \in f.foci : ~MatchesFormat(x) THEN Raised("ValueError")
            ELSE IF f.foci # {} /\ ~bound1 THEN Raised("UnboundLocalError")
            ELSE Step4Loop(folder_paths, kept, k + 1, bound1)

validate_path_files(json_exists, folder_paths, step) ==
    IF ~json_exists THEN Raised("ValueError")
    ELSE IF Len(folder_paths) = 0 THEN Raised("ValueError")
    ELSE LET listed == ListedLoop(folder_paths, step, 1)
             kept == listed.result
         IN IF listed.raised # "" THEN listed
            ELSE IF step = 1 THEN listed
            ELSE IF step = 2 THEN Step2Loop(folder_paths, kept)
            ELSE IF step = 3 THEN Step3Loop(folder_paths, kept, 1)
            ELSE IF step = 4 THEN Step4Loop(folder_paths, kept, 1, FALSE)
            ELSE Raised("ValueError")

(***************************************************************************)
(* Stage 5: main_graphs_representation (5_graph_representation.py 192-312) *)
(***************************************************************************)
\* what stage 4 leaves below a base folder when it saves its csv
Stage4Disk ==
    makedirs({}, <<Dir("foci_analysis"), Stamped("Results_", Stamps[1])>>)
      \cup {output_csv(<<Dir("foci_analysis"), Stamped("Results_", Stamps[1])>>)}

\* results in the layout of the older stage 4 script, for the folder base_name
OldResultsDisk(base_name) ==
    LET nuclei_results == <<Dir("foci_analysis"), Stamped("Nuclei_count_results_", OldStamp)>>
        foci_results == <<Dir("foci_analysis"), Stamped("Foci_count_results_", OldStamp)>>
    IN makedirs(makedirs({}, nuclei_results), foci_results)
         \cup {nuclei_csv(nuclei_results, base_name), foci_csv(foci_results, base_name)}

\* what a listed folder may hold
GraphDisks(base_name) == { {}, Stage4Disk, OldResultsDisk(base_name) }

GraphVars(pc, listed, fs, disks) ==
    /\ g_pc = pc
    /\ g_error = ""
    /\ start_proc = NotAsked
    /\ g_folders = fs
    /\ g_disks = disks
    /\ g_idx = 1
    /\ all_foci = <<>>
    /\ g_log = <<>>
    /\ g_graphs = FALSE
    /\ g_listed = listed
    /\ graphs_base = ""

\* stage 5 is not the script that runs
GraphIdle == GraphVars(Idle, <<>>, <<>>, <<>>)

\* line 272: first_folder = valid_folders[0]
FirstFolder(kept) == kept[1]

\* line 214: the JSON file lists existing folders (a missing folder and an
\* empty list raise inside validate_path_files); step 1 keeps those that
\* hold an image file.  What the folders hold otherwise is the environment's.
GraphStart ==
    \E n \in 1..MaxFolders, images \in [1..MaxFolders -> BOOLEAN] :
        LET listed == SubSeq(AllFolders, 1, n)
            folder_paths == [i \in 1..n |->
                                [exists |-> TRUE, images |-> images[i], assay |-> FALSE,
                                 Nuclei |-> FALSE, nuclei |-> {}, foci |-> {}]]
            kept == validate_path_files(TRUE, folder_paths, 1).result
        IN \E disks \in [Range(listed) -> UNION {GraphDisks(f) : f \in Range(AllFolders)}] :
            /\ \A f \in DOMAIN disks : disks[f] \in GraphDisks(f)
            /\ GraphVars("start", listed, [k \in 1..Len(kept) |-> listed[kept[k]]], disks)

\* lines 214-225: no valid folder, or the start prompt
G_StartPrompt ==
    /\ g_pc = "start"
    /\ IF g_folders = <<>>
       THEN /\ g_log' = Append(g_log, "No valid folders found. Exiting.")
            /\ g_pc' = "returned"
            /\ UNCHANGED <<g_error, start_proc>>
       ELSE \E answer \in Answers :
            /\ start_proc' = StripLower(answer)
            /\ IF Cancels(StripLower(answer))
               THEN /\ g_log' = Append(g_log, "Graph generation canceled.")
                    /\ g_pc' = "returned"
                    /\ UNCHANGED g_error
               ELSE IF StripLower(answer) \notin {"yes", "y"}
               THEN /\ g_pc' = "raised"
                    /\ g_error' = "Incorrect input. Please enter yes/no"
                    /\ UNCHANGED g_log
               ELSE /\ g_pc' = "gather"
                    /\ UNCHANGED <<g_error, g_log>>
    /\ UNCHANGED <<g_folders, g_disks, g_idx, all_foci, g_graphs, g_listed, graphs_base>>
    /\ UNCHANGED notG

\* lines 230-234: gather_data_for_folder for one listed folder
G_Gather ==
    /\ g_pc = "gather"
    /\ g_idx <= Len(g_folders)
    /\ LET folder_path == g_folders[g_idx]
       IN all_foci' = IF gather_data_for_folder(g_disks[folder_path], folder_path)
                      THEN Append(all_foci, folder_path) ELSE all_foci
    /\ g_idx' = g_idx + 1
    /\ UNCHANGED <<g_pc, g_error, start_proc, g_folders, g_disks, g_log, g_graphs,
                   g_listed, graphs_base>>
    /\ UNCHANGED notG

\* lines 236-312: nothing loaded, or the figures are written
G_Plot ==
    /\ g_pc = "gather"
    /\ g_idx > Len(g_folders)
    /\ IF all_foci = <<>>
       THEN /\ g_log' = Append(g_log, "No data frames were successfully loaded. Exiting.")
            /\ g_pc' = "returned"
            /\ UNCHANGED <<g_graphs, graphs_base>>
       ELSE /\ graphs_base' = FirstFolder(g_folders)
            /\ g_graphs' = TRUE
            /\ g_pc' = "done"
            /\ UNCHANGED g_log
    /\ UNCHANGED <<g_error, start_proc, g_folders, g_disks, g_idx, all_foci, g_listed>>
    /\ UNCHANGED notG

NextGraph == G_StartPrompt \/ G_Gather \/ G_Plot

(***************************************************************************)
(* The stages run, in any order, on the base folder.                       *)
(***************************************************************************)
NoQuant == [ran |-> FALSE, after |-> {}, metadata_found |-> FALSE, gathered |-> FALSE,
            searched |-> <<>>, nuclei_folder |-> <<>>, stage2_out |-> {},
            outcome |-> ""]

NoGraph == [ran |-> FALSE, after_csv |-> FALSE, loaded |-> FALSE]

PipeVars(d, c) ==
    /\ disk = d
    /\ clock = c
    /\ p_ran = {}
    /\ p_stage2_out = {}
    /\ p_error = ""
    /\ p_quant = NoQuant
    /\ p_graph = NoGraph

\* no pipeline is looked at
PipeIdle == PipeVars({}, 0)

\* a base folder that holds its input images only
PipeStart == PipeVars({<<c>> : c \in BaseImages}, 1)

now_str == Stamps[clock]

\* stage 1 on the base folder; an existing foci_assay asks for the overwrite
\* answer (1_select_channels.py 140-373)
P_Stage1 ==
    /\ clock >= 1
    /\ \E answer \in Answers :
        IF processed_folder \in disk /\ StripLower(answer) = "no"
        THEN /\ p_error' = "Analysis canceled by user."
             /\ UNCHANGED <<disk, p_ran>>
        ELSE /\ disk' = process_image(disk)
             /\ p_ran' = p_ran \cup {"stage1"}
             /\ p_error' = ""
    /\ UNCHANGED <<clock, p_stage2_out, p_quant, p_graph>>
    /\ UNCHANGED notP

\* stage 2 on the base folder (2_nuclei_mask_generation.py 270-284)
P_Stage2 ==
    /\ clock \in 1..MaxClock
    /\ disk' = nuclei_mask_generation(disk, now_str)
    /\ clock' = clock + 1
    /\ p_ran' = p_ran \cup {"stage2"}
    /\ p_stage2_out' = p_stage2_out \cup
          { p \in nuclei_mask_generation(disk, now_str) \ disk :
                p[Len(p)].name = "Final_Nuclei_Mask_" }
    /\ p_error' = ""
    /\ UNCHANGED <<p_quant, p_graph>>
    /\ UNCHANGED notP

\* stage 3 on the base folder (3_foci_mask_generation.py 317-382), the
\* proceed prompt answered yes
P_Stage3 ==
    /\ clock \in 1..MaxClock
    /\ IF <<Dir("foci_assay"), Dir("Foci")>> \notin disk
       THEN /\ p_error' = "KeyError: 'foci_folder'"
            /\ disk' = disk \cup {<<File("3_val_log", ".log")>>}
            /\ UNCHANGED <<clock, p_ran>>
       ELSE IF foci_subfolders(disk) = {}
       THEN /\ p_error' = ""
            /\ disk' = disk \cup {<<File("3_val_log", ".log")>>}
            /\ UNCHANGED <<clock, p_ran>>
       ELSE \E subfolder \in foci_subfolders(disk) :
            /\ disk' = filter_foci(disk \cup {<<File("3_val_log", ".log")>>},
                                   subfolder, now_str)
            /\ clock' = clock + 1
            /\ p_ran' = p_ran \cup {"stage3"}
            /\ p_error' = ""
    /\ UNCHANGED <<p_stage2_out, p_quant, p_graph>>
    /\ UNCHANGED notP

\* stage 4 on the base folder (4_foci_quantification.py 548-628), both
\* prompts answered yes.  Whether the images yield rows is the environment's.
P_Stage4 ==
    /\ clock \in 1..MaxClock
    /\ \E has_rows \in BOOLEAN :
        LET foci_assay_folder == <<Dir("foci_assay")>>
            results_folder == <<Dir("foci_analysis"), Stamped("Results_", now_str)>>
            d1 == makedirs(disk, results_folder)
                    \cup {Append(results_folder, File("4_log", ".log"))}
            found == metadata_path \in disk
            nuc == get_latest_nuclei_mask_folder(disk, foci_assay_folder)
            foc == get_latest_foci_folders(disk, foci_assay_folder)
            nuc_files == {c \in listdir(disk, nuc.path) : c.ext = ".tif"}
            outcome == IF ~found THEN "There is no metadata file"
                       ELSE IF nuc.raised \/ foc.raised THEN "Error gathering paths"
                       ELSE IF nuc_files = {} THEN "No nuclei files"
                       ELSE IF ~has_rows THEN "No data after processing"
                       ELSE "Saved result"
        IN IF foci_assay_folder \notin disk
           THEN /\ p_error' = "No valid folders found in JSON."
                /\ UNCHANGED <<disk, clock, p_ran, p_quant>>
           ELSE /\ disk' = IF outcome = "Saved result"
                           THEN d1 \cup {output_csv(results_folder)} ELSE d1
                /\ clock' = clock + 1
                /\ p_ran' = p_ran \cup {"stage4"}
                /\ p_error' = IF found THEN "" ELSE outcome
                /\ p_quant' = [ran |-> TRUE, after |-> p_ran,
                               metadata_found |-> found,
                               gathered |-> found,
                               searched |-> IF found THEN nuclei_masks_dir(foci_assay_folder)
                                            ELSE <<>>,
                               nuclei_folder |-> IF found THEN nuc.path ELSE <<>>,
                               stage2_out |-> p_stage2_out,
                               outcome |-> outcome]
    /\ UNCHANGED <<p_stage2_out, p_graph>>
    /\ UNCHANGED notP

\* the result csv files stage 4 has saved
SavedCsvs(d) == {p \in d : p[Len(p)] = File("all_results_with_coloc_universal", ".csv")}

\* stage 5 on the base folder: gather_data_for_folder
\* (5_graph_representation.py 230-234)
P_Stage5 ==
    /\ clock >= 1
    /\ p_graph' = [ran |-> TRUE, after_csv |-> SavedCsvs(disk) # {},
                   loaded |-> gather_data_for_folder(disk, BaseName)]
    /\ p_ran' = p_ran \cup {"stage5"}
    /\ p_error' = ""
    /\ UNCHANGED <<disk, clock, p_stage2_out, p_quant>>
    /\ UNCHANGED notP

\* the user copies stage 1's metadata file to where stage 4 reads it
P_UserCopiesMetadata ==
    /\ clock >= 1
    /\ metadata_file_path \in disk
    /\ metadata_path \notin disk
    /\ disk' = makedirs(disk, metadata_path)
    /\ UNCHANGED <<clock, p_ran, p_stage2_out, p_error, p_quant, p_graph>>
    /\ UNCHANGED notP

\* the user copies the Final_Nuclei_Mask_ folders to where stage 4 lists them
P_UserCopiesNucleiMasks ==
    /\ clock >= 1
    /\ LET foci_assay_folder == <<Dir("foci_assay")>>
           made == {p \in disk : Len(p) >= 2 /\ p[1] = Dir("foci_assay")
                                 /\ p[2].name = "Final_Nuclei_Mask_"}
           copies == {nuclei_masks_dir(foci_assay_folder) \o SubSeq(p, 2, Len(p)) : p \in made}
       IN /\ made # {}
          /\ ~(copies \subseteq disk)
          /\ disk' = makedirs(disk, nuclei_masks_dir(foci_assay_folder)) \cup copies
    /\ UNCHANGED <<clock, p_ran, p_stage2_out, p_error, p_quant, p_graph>>
    /\ UNCHANGED notP

\* results in the layout of the older stage 4 script are present
\* (4_calculate_nuc_foci.py 108-113, 253, 423)
P_OldResults ==
    /\ clock >= 1
    /\ LET nuclei_results == <<Dir("foci_analysis"), Stamped("Nuclei_count_results_", OldStamp)>>
           foci_results == <<Dir("foci_analysis"), Stamped("Foci_count_results_", OldStamp)>>
       IN /\ nuclei_results \notin disk
          /\ disk' = makedirs(makedirs(disk, nuclei_results), foci_results)
                       \cup {nuclei_csv(nuclei_results, BaseName),
                             foci_csv(foci_results, BaseName)}
    /\ UNCHANGED <<clock, p_ran, p_stage2_out, p_error, p_quant, p_graph>>
    /\ UNCHANGED notP

NextPipe ==
    \/ P_Stage1 \/ P_Stage2 \/ P_Stage3 \/ P_Stage4 \/ P_Stage5
    \/ P_UserCopiesMetadata \/ P_UserCopiesNucleiMasks \/ P_OldResults

(***************************************************************************)
(* Two executions of process_nuclei_image for two images of one results    *)
(* folder, run at the same time.  Each execution has one valid foci        *)
(* channel and a metadata entry, and colocalization is off.  The steps are *)
(* the file system calls of process_nuclei_image and count_foci_in_nuclei  *)
(* (4_foci_quantification.py 375-448, 292-360).                            *)
(***************************************************************************)
Workers == {"w1", "w2"}

\* the image key of each execution's nuclei file
PoolKeys == [w \in Workers |-> IF w = "w1" THEN AllKeys[1] ELSE AllKeys[2]]

\* the one foci channel listed for both images
PoolChannel == ChannelOrder[1]

\* lines 324-325
TempResultsFile(image_key) == image_key \o "_temp_results.csv"

NotReturned == [returned |-> FALSE, caught |-> FALSE, rows |-> <<>>]

\* no worker runs
PoolIdle ==
    /\ pool_pc = <<>>
    /\ pool_in = <<>>
    /\ pool_ret = <<>>
    /\ pool_fs = EmptyResultsFs

\* both executions are submitted; the masks are the environment's
PoolStart ==
    \E nm \in [Workers -> NucleiMasks], fm \in [Workers -> FociMasks] :
        /\ pool_pc = [w \in Workers |-> "mkdir"]
        /\ pool_in = [w \in Workers |->
                         [key |-> PoolKeys[w], nuclei_mask |-> nm[w], foci_mask |-> fm[w]]]
        /\ pool_ret = [w \in Workers |-> NotReturned]
        /\ pool_fs = EmptyResultsFs

\* lines 531-533: the except clause logs the error and returns []
W_Caught(w) ==
    /\ pool_pc' = [pool_pc EXCEPT ![w] = "done"]
    /\ pool_ret' = [pool_ret EXCEPT ![w] = [returned |-> TRUE, caught |-> TRUE,
                                            rows |-> <<>>]]
    /\ UNCHANGED pool_fs

\* lines 376-418: temp folder created (exist_ok), labeled nuclei image saved
W_Mkdir(w) ==
    /\ pool_pc[w] = "mkdir"
    /\ pool_fs' = SaveFile(MkTemp(pool_fs), LabeledName(pool_in[w].key))
    /\ pool_pc' = [pool_pc EXCEPT ![w] = "write"]
    /\ UNCHANGED <<pool_in, pool_ret>>
    /\ UNCHANGED notW

\* lines 424 and 305-354: open(temp_results_file, "w") and the rows written
W_Write(w) ==
    /\ pool_pc[w] = "write"
    /\ IF ~pool_fs.temp
       THEN W_Caught(w)                        \* FileNotFoundError
       ELSE /\ pool_fs' = [pool_fs EXCEPT !.temp_files =
                              @ \cup {TempResultsFile(pool_in[w].key)}]
            /\ pool_pc' = [pool_pc EXCEPT ![w] = "read"]
            /\ UNCHANGED pool_ret
    /\ UNCHANGED pool_in
    /\ UNCHANGED notW

\* lines 355-358: open(temp_results_file, "r") and the rows read back
W_Read(w) ==
    /\ pool_pc[w] = "read"
    /\ IF TempResultsFile(pool_in[w].key) \notin pool_fs.temp_files
       THEN W_Caught(w)                        \* FileNotFoundError
       ELSE /\ pool_pc' = [pool_pc EXCEPT ![w] = "rmtree"]
            /\ UNCHANGED <<pool_ret, pool_fs>>
    /\ UNCHANGED pool_in
    /\ UNCHANGED notW

\* lines 359-360 and 429-448: shutil.rmtree(temp_folder), then the records
\* of the one channel are returned
W_Rmtree(w) ==
    /\ pool_pc[w] = "rmtree"
    /\ IF ~pool_fs.temp
       THEN W_Caught(w)                        \* FileNotFoundError
       ELSE LET arr_nuc == measure_label(pool_in[w].nuclei_mask)
                arr_foc == measure_label(pool_in[w].foci_mask)
                rows == [n \in 1..MaxLabel(arr_nuc) |->
                            FociRow(arr_nuc, arr_foc, pool_in[w].key, n)]
            IN /\ pool_fs' = RmTemp(pool_fs)
               /\ pool_ret' = [pool_ret EXCEPT ![w] =
                      [returned |-> TRUE, caught |-> FALSE,
                       rows |-> MergeAll(<<RenameRows(rows, PoolChannel)>>)]]
               /\ pool_pc' = [pool_pc EXCEPT ![w] = "done"]
    /\ UNCHANGED pool_in
    /\ UNCHANGED notW

\* the worker pool: either execution takes its next step
NextPool == \E w \in Workers : W_Mkdir(w) \/ W_Write(w) \/ W_Read(w) \/ W_Rmtree(w)

(***************************************************************************)
(* One call of a helper function on arguments the environment chooses.     *)
(***************************************************************************)
NoCall == <<>>

\* no helper function is called on its own
UnitIdle ==
    /\ u_fn = Idle
    /\ u_args = NoCall
    /\ u_ret = NoCall
    /\ u_done = FALSE

\* the function fn is about to be called on one of the argument values in args
UnitCall(fn, args) ==
    /\ u_fn = fn
    /\ u_args \in args
    /\ u_ret = NoCall
    /\ u_done = FALSE

\* the call of fn returns ret
UnitReturn(fn, ret) ==
    /\ u_fn = fn
    /\ ~u_done
    /\ u_ret' = ret
    /\ u_done' = TRUE
    /\ UNCHANGED <<u_fn, u_args>>
    /\ UNCHANGED notU

RECURSIVE ParseInt(_)
\* the number a string of digits denotes
ParseInt(s) == IF s = <<>> THEN 0 ELSE 10 * ParseInt(SubSeq(s, 1, Len(s) - 1)) + (s[Len(s)] - 48)

\* datetime.strptime(s, "%Y%m%d_%H%M%S") on a well-formed suffix
strptime(s) ==
    [Y |-> ParseInt(SubSeq(s, 1, 4)), m |-> ParseInt(SubSeq(s, 5, 6)),
     d |-> ParseInt(SubSeq(s, 7, 8)), H |-> ParseInt(SubSeq(s, 10, 11)),
     M |-> ParseInt(SubSeq(s, 12, 13)), S |-> ParseInt(SubSeq(s, 14, 15))]

\* the order of two datetime objects
DatetimeLess(a, b) ==
    LET ta == <<a.Y, a.m, a.d, a.H, a.M, a.S>>
        tb == <<b.Y, b.m, b.d, b.H, b.M, b.S>>
    IN \E i \in 1..6 : ta[i] < tb[i] /\ \A j \in 1..(i - 1) : ta[j] = tb[j]

\* a sort that leaves the oldest suffix first
OldestBySuffix(suffixes) ==
    CHOOSE s \in suffixes : \A o \in suffixes : ~StrLess(o, s)

\* 4_foci_quantification.py 50-61: the suffixes the regex extracts, sorted as
\* strings with reverse=True, the first one taken
LatestBySuffix(suffixes) ==
    CHOOSE s \in suffixes : \A o \in suffixes : ~StrLess(s, o)

\* validate_folders.py 149-160 and 221-232: max() over the parsed date-times
LatestByDatetime(suffixes) ==
    CHOOSE s \in suffixes : \A o \in suffixes : ~DatetimeLess(strptime(s), strptime(o))

RECURSIVE SetsUpTo(_, _)
\* the subsets of S with at most k elements
SetsUpTo(S, k) ==
    IF k = 0 THEN {{}}
    ELSE LET smaller == SetsUpTo(S, k - 1)
         IN smaller \cup {T \cup {x} : T \in smaller, x \in S}

\* the folders of one prefix in a directory, by the time of their creation
LatestStart ==
    UnitCall("latest_folder", SetsUpTo(DateTimes, MaxStamped) \ {{}})

\* both selections on the names of the folders
U_Latest ==
    LET suffixes == {strftime(dt) : dt \in u_args}
    IN UnitReturn("latest_folder",
                  [by_suffix |-> LatestBySuffix(suffixes),
                   by_datetime |-> LatestByDatetime(suffixes)])

\* masks of one row of four pixels: background, objects of two values
\* (objects that touch have different values), and a mask of another shape
UnitMasks == [1..4 -> {0, 1, 2}]

CountStart ==
    UnitCall("count_foci_in_nuclei",
             [nuclei_mask : UnitMasks, foci_mask : UnitMasks \cup {BadShapeMask}])

\* count_foci_in_nuclei with an existing temp folder
U_Count ==
    UnitReturn("count_foci_in_nuclei",
               count_foci_in_nuclei(u_args.nuclei_mask, u_args.foci_mask, AllKeys[1],
                                    MkTemp(EmptyResultsFs)))

(***************************************************************************)
(* build_intersection_mask (4_foci_quantification.py 240-289).  A mask is  *)
(* the sequence of its pixels' labels.  Returns [raised, mask].            *)
(***************************************************************************)
RECURSIVE SortedLabels(_)
\* lines 262-263: np.unique(m) without 0, in increasing order
SortedLabels(S) ==
    IF S = {} THEN <<>>
    ELSE LET least == CHOOSE x \in S : \A y \in S : x <= y
         IN <<least>> \o SortedLabels(S \ {least})

RECURSIVE Product(_)
\* itertools.product(*label_lists): the last list varies fastest
Product(lists) ==
    IF lists = <<>> THEN << <<>> >>
    ELSE LET first == Head(lists)
             rest == Product(Tail(lists))
             n == Len(rest)
         IN [j \in 1..(Len(first) * n) |->
                <<first[((j - 1) \div n) + 1]>> \o rest[((j - 1) % n) + 1]]

\* an overlap built with |= : the pixels where some mask has its label
OverlapAny(masks, combo) ==
    {i \in 1..Len(masks[1]) : \E k \in 1..Len(masks) : masks[k][i] = combo[k]}

\* lines 269-284: overlap_bool, the pixels where every mask has its label
Overlap(masks, combo) ==
    {i \in 1..Len(masks[1]) : \A k \in 1..Len(masks) : masks[k][i] = combo[k]}

RECURSIVE PaintCombos(_, _, _, _, _)
\* lines 268-288: the loop over the combinations; the mask is uint16
PaintCombos(masks, combos, c, intersection_mask, label_counter) ==
    IF c > Len(combos) THEN intersection_mask
    ELSE LET overlap_bool == Overlap(masks, combos[c])
         IN IF overlap_bool = {}
            THEN PaintCombos(masks, combos, c + 1, intersection_mask, label_counter)
            ELSE PaintCombos(masks, combos, c + 1,
                     [i \in 1..Len(intersection_mask) |->
                         IF i \in overlap_bool THEN label_counter % 65536
                         ELSE intersection_mask[i]],
                     label_counter + 1)

build_intersection_mask(masks) ==
    IF Len(masks) < 2 THEN [raised |-> TRUE, mask |-> <<>>]
    ELSE IF Cardinality({Len(masks[k]) : k \in 1..Len(masks)}) # 1
    THEN [raised |-> TRUE, mask |-> <<>>]
    ELSE LET label_lists == [k \in 1..Len(masks) |-> SortedLabels(Range(masks[k]) \ {0})]
         IN [raised |-> FALSE,
             mask |-> PaintCombos(masks, Product(label_lists), 1,
                                  [i \in 1..Len(masks[1]) |-> 0], 1)]

\* labelled masks of one shape, one to MaxMasks of them, or two of two shapes
InterMasks == [1..MaxPixels -> {0, 1, 2}]

IntersectStart ==
    UnitCall("build_intersection_mask",
             UNION {[1..n -> InterMasks] : n \in 1..MaxMasks}
                \cup {<<m, BadShapeMask>> : m \in InterMasks})

U_Intersect ==
    UnitReturn("build_intersection_mask", build_intersection_mask(u_args))

(***************************************************************************)
(* File names and image keys.  A name is a sequence of pieces; a piece is  *)
(* one of the substrings the stages add or look for, or a word that holds  *)
(* none of them.                                                           *)
(***************************************************************************)
Exts == {".nd2", ".tif"}

\* os.path.splitext(name)[0]
splitext(name) ==
    IF Len(name) > 1 /\ name[Len(name)] \in Exts THEN SubSeq(name, 1, Len(name) - 1)
    ELSE name

MatchAt(name, pattern, i) ==
    /\ i + Len(pattern) - 1 <= Len(name)
    /\ SubSeq(name, i, i + Len(pattern) - 1) = pattern

RECURSIVE re_sub(_, _, _)
\* re.sub(pattern, "", name): every occurrence from the left, from piece i on
re_sub(pattern, name, i) ==
    IF i > Len(name) THEN <<>>
    ELSE IF MatchAt(name, pattern, i) THEN re_sub(pattern, name, i + Len(pattern))
    ELSE <<name[i]>> \o re_sub(pattern, name, i + 1)

\* re.sub(r"^processed_", "", name)
re_sub_start(pattern, name) ==
    IF MatchAt(name, pattern, 1) THEN SubSeq(name, Len(pattern) + 1, Len(name)) ELSE name

\* re.sub(r"\.tif$", "", name)
re_sub_end(pattern, name) ==
    IF Len(name) >= Len(pattern) /\ MatchAt(name, pattern, Len(name) - Len(pattern) + 1)
    THEN SubSeq(name, 1, Len(name) - Len(pattern)) ELSE name

\* 4_foci_quantification.py 137-148
extract_image_key(filename) ==
    LET f1 == re_sub(<<"_nuclei_projection", "_StarDist_processed", "_processed">>,
                     filename, 1)
        f2 == re_sub_start(<<"processed_">>, f1)
        f3 == re_sub(<<"_foci_projection">>, f2, 1)
        f4 == re_sub_end(<<".tif">>, f3)
    IN re_sub(<<".nd2">>, f4, 1)

\* 1_select_channels.py: the projections of the image with base name B
NucleiProjection(B) == B \o <<"_nuclei_projection", ".tif">>
FociProjection(B) == B \o <<"_foci_projection", ".tif">>

\* 2_nuclei_mask_generation.py 143-147 and 255-259: the final nuclei mask
Stage2Name(image_file) ==
    LET star_dist == splitext(image_file) \o <<"_StarDist_processed", ".tif">>
    IN splitext(star_dist) \o <<"_processed", ".tif">>

\* 3_foci_mask_generation.py 306-308
Stage3Name(filename) == <<"processed_">> \o filename

\* 4_foci_quantification.py 164-165: the key of 'Image Name: <name>'
MetadataKey(image_name) == splitext(image_name)

\* base names of source images, of one or two pieces
BaseNames ==
    LET pieces == {"cells", "processed_", ".nd2", "_foci_projection"}
    IN UNION {[1..n -> pieces] : n \in 1..MaxPieces}

KeysStart == UnitCall("image_keys", [B : BaseNames, ext : Exts])

\* the keys stage 4 derives for the image with base name B
U_Keys ==
    UnitReturn("image_keys",
               [nuclei |-> extract_image_key(Stage2Name(NucleiProjection(u_args.B))),
                foci |-> extract_image_key(Stage3Name(FociProjection(u_args.B))),
                metadata |-> MetadataKey(Append(u_args.B, u_args.ext))])

(***************************************************************************)
(* find_metadata_for_file (3_foci_mask_generation.py 161-169,              *)
(* 3_filter_imgs.py 85-99).  metadata_dict is the sequence of its entries  *)
(* in insertion order, the order of the blocks of image_metadata.txt.      *)
(***************************************************************************)
None == [none |-> TRUE]

\* base_key in filename
Contains(filename, base_key) ==
    \E i \in 1..Len(filename) : MatchAt(filename, base_key, i)

RECURSIVE find_metadata_for_file(_, _, _)
\* the loop over metadata_dict.items(), from entry e on
find_metadata_for_file(filename, metadata_dict, e) ==
    IF e > Len(metadata_dict) THEN None
    ELSE IF Contains(filename, metadata_dict[e].base_key)
    THEN [none |-> FALSE, cal_data |-> metadata_dict[e].cal_data]
    ELSE find_metadata_for_file(filename, metadata_dict, e + 1)

\* base names of the images of one folder: image_1, image_10, image_2
ImageNames == {<<"image_", "1">>, <<"image_", "1", "0">>, <<"image_", "2">>}

\* the dictionaries parse_metadata_file builds: an entry per image name
MetadataDicts ==
    {dict \in UNION {[1..n -> [base_key : ImageNames, cal_data : [pixel_width : 1..2]]] :
                        n \in 0..MaxEntries} :
        \A i, j \in 1..Len(dict) : dict[i].base_key = dict[j].base_key => i = j}

FindStart ==
    UnitCall("find_metadata_for_file",
             [B : ImageNames, nuclei : BOOLEAN, metadata_dict : MetadataDicts])

U_Find ==
    LET filename == IF u_args.nuclei THEN NucleiProjection(u_args.B)
                    ELSE FociProjection(u_args.B)
    IN UnitReturn("find_metadata_for_file",
                  find_metadata_for_file(filename, u_args.metadata_dict, 1))

\* 4_foci_quantification.py 333-358: the rows count_foci_in_nuclei returns
\* for an image with the nuclei labels 1..count, as csv.DictReader reads
\* them back: every field is a string
RowsOf(image) ==
    [l \in 1..image.count |-> [Image_Key |-> image.key, Nucleus |-> DecStr(l)]]

RECURSIVE AllResults(_)
\* line 602: all_results.extend(partial_res) over the images of a folder
AllResults(images) ==
    IF images = <<>> THEN <<>>
    ELSE AllResults(SubSeq(images, 1, Len(images) - 1)) \o RowsOf(images[Len(images)])

\* the images of one base folder, in the order of os.listdir, with the
\* number of nuclei of each
CountedImages ==
    {images \in UNION {[1..n -> [key : {"img_a", "img_b"}, count : 1..MaxNuclei]] : n \in 1..2} :
        \A i, j \in 1..Len(images) : images[i].key = images[j].key => i = j}

SortStart == UnitCall("sort_values", CountedImages)

\* lines 620-621
U_Sort == UnitReturn("sort_values", SortRows(AllResults(u_args)))

(***************************************************************************)
(* get_latest_foci_folders (4_foci_quantification.py 65-104) on the names  *)
(* of the entries of Foci_Masks, as strings of character codes.            *)
(***************************************************************************)
\* re.search and str.split take the first match
First(S) == CHOOSE x \in S : \A y \in S : x <= y

IsDigit(c) == c \in 48..57

\* 'Foci_' and '_Channel_'
FociPrefix == <<70, 111, 99, 105, 95>>
ChannelInfix == <<95, 67, 104, 97, 110, 110, 101, 108, 95>>

\* \d: one digit and no more
OneDigit(name, i) == i

\* \d+ from place i, where a digit stands: the place of the last digit of
\* the run (the match is greedy)
DigitRun(name, i) ==
    First({j \in i..Len(name) : j = Len(name) \/ ~IsDigit(name[j + 1])})

\* re.search(r"_(\d{8}_\d{6})", folder): the places where the pattern matches
TimestampMatches(folder) ==
    {i \in 1..Len(folder) :
        /\ i + 15 <= Len(folder)
        /\ folder[i] = 95 /\ folder[i + 9] = 95
        /\ \A k \in (1..8) \cup (10..15) : IsDigit(folder[i + k])}

\* re.search(r"(Foci_\d+_Channel_\d+)", folder): the places where it matches
ChannelMatches(folder) ==
    {i \in 1..Len(folder) :
        /\ MatchAt(folder, FociPrefix, i)
        /\ i + 5 <= Len(folder) /\ IsDigit(folder[i + 5])
        /\ MatchAt(folder, ChannelInfix, DigitRun(folder, i + 5) + 1)
        /\ DigitRun(folder, i + 5) + 10 <= Len(folder)
        /\ IsDigit(folder[DigitRun(folder, i + 5) + 10])}

\* lines 83 and 89: match.group(1) of the timestamp pattern
TimestampGroup(folder) ==
    LET i == First(TimestampMatches(folder)) IN SubSeq(folder, i + 1, i + 15)

\* lines 86 and 88: channel_match.group(1)
ChannelGroup(folder) ==
    LET i == First(ChannelMatches(folder))
    IN SubSeq(folder, i, DigitRun(folder, DigitRun(folder, i + 5) + 10))

RECURSIVE LatestFociLoop(_, _, _)
\* lines 81-96: latest_foci_folders after the folders from place i on
LatestFociLoop(foci_folders, i, latest) ==
    IF i > Len(foci_folders) THEN latest
    ELSE LET folder == foci_folders[i]
             channel_name == ChannelGroup(folder)
             timestamp == TimestampGroup(folder)
             put == [c \in DOMAIN latest \cup {channel_name} |->
                        IF c = channel_name THEN [folder |-> folder, timestamp |-> timestamp]
                        ELSE latest[c]]
         IN IF TimestampMatches(folder) = {} \/ ChannelMatches(folder) = {}
            THEN LatestFociLoop(foci_folders, i + 1, latest)
            ELSE IF channel_name \in DOMAIN latest
            THEN LatestFociLoop(foci_folders, i + 1,
                     IF StrLess(latest[channel_name].timestamp, timestamp)
                     THEN put ELSE latest)
            ELSE LatestFociLoop(foci_folders, i + 1, put)

\* lines 65-104 on the listing of an existing Foci_Masks; paths maps the
\* channel name to the folder name
latest_foci_folders(listing) ==
    LET foci_folders == SelectSeq(listing, LAMBDA f : MatchAt(f, FociPrefix, 1))
        latest == LatestFociLoop(foci_folders, 1, <<>>)
    IN IF foci_folders = <<>> THEN [raised |-> "FileNotFoundError", paths |-> <<>>]
       ELSE IF DOMAIN latest = {} THEN [raised |-> "ValueError", paths |-> <<>>]
       ELSE [raised |-> "", paths |-> [c \in DOMAIN latest |-> latest[c].folder]]

\* the entries of Foci_Masks: the folders stage 3 made for channel 1 and
\* channel 10 at three times, a second folder of the same time ('..._v2'),
\* folders without a timestamp or without a channel name, and another entry
FociMaskTimes ==
    {dt \in DateTimes : /\ dt.Y = 2024 /\ dt.d = 9 /\ dt.M = 0 /\ dt.S = 5
                        /\ <<dt.m, dt.H>> \in {<<2, 9>>, <<2, 10>>, <<10, 9>>}}

FociMaskEntries ==
    [kind : {"foci"}, channel : {<<49>>, <<49, 48>>}, stamp : {<<dt>> : dt \in FociMaskTimes},
     tail : {<<>>, <<95, 118, 50>>}]
        \cup [kind : {"foci"}, channel : {<<49>>}, stamp : {<<>>}, tail : {<<111, 108, 100>>}]
        \cup [kind : {"foci"}, channel : {<<>>}, stamp : {<<dt>> : dt \in FociMaskTimes},
              tail : {<<>>}]
        \cup {[kind |-> "other", channel |-> <<>>, stamp |-> <<>>, tail |-> <<82, 101, 115, 117, 108, 116, 115>>]}

\* the name of an entry
EntryName(f) ==
    IF f.kind = "other" THEN f.tail
    ELSE FociPrefix \o <<49>>
           \o (IF f.channel = <<>> THEN <<>> ELSE ChannelInfix \o f.channel) \o <<95>>
           \o (IF f.stamp = <<>> THEN <<>> ELSE strftime(f.stamp[1])) \o f.tail

FociListings ==
    {l \in UNION {[1..n -> FociMaskEntries] : n \in 1..MaxStamped} :
        \A i, j \in 1..Len(l) : l[i] = l[j] => i = j}

LatestFociStart == UnitCall("get_latest_foci_folders", FociListings)

U_LatestFoci ==
    UnitReturn("get_latest_foci_folders",
               latest_foci_folders([i \in 1..Len(u_args) |-> EntryName(u_args[i])]))

(***************************************************************************)
(* The routines that select the latest stamped folder, on the suffixes of  *)
(* the entries that have the routine's prefix.                             *)
(***************************************************************************)
\* validate_folders.py 148-162 (221-232, 247-254) and
\* 3_foci_mask_generation.py 49-72: strptime on every suffix, max() over
\* the date-times
LatestStrptime(suffixes) ==
    IF \E x \in suffixes : ~MatchesFormat(x) THEN [raised |-> "ValueError", latest |-> <<>>]
    ELSE IF suffixes = {} THEN [raised |-> "", latest |-> <<>>]
    ELSE [raised |-> "", latest |-> LatestByDatetime(suffixes)]

\* Step3.py 101-119: the ValueError of strptime is caught and the folder
\* skipped
LatestStrptimeTry(suffixes) ==
    LET processed_folders == {x \in suffixes : MatchesFormat(x)}
    IN IF processed_folders = {} THEN [raised |-> "", latest |-> <<>>]
       ELSE [raised |-> "", latest |-> LatestByDatetime(processed_folders)]

\* 'Final_Nuclei_Mask_'
FinalNucleiPrefix == <<70, 105, 110, 97, 108, 95, 78, 117, 99, 108, 101, 105, 95, 77, 97, 115, 107, 95>>

\* 4_foci_quantification.py 45-61: the folders the timestamp pattern matches,
\* the greatest group first
LatestRegex(suffixes) ==
    LET folder_timestamps ==
            {x \in suffixes : TimestampMatches(FinalNucleiPrefix \o x) # {}}
        group(x) == TimestampGroup(FinalNucleiPrefix \o x)
    IN IF suffixes = {} THEN [raised |-> "FileNotFoundError", latest |-> <<>>]
       ELSE IF folder_timestamps = {} THEN [raised |-> "ValueError", latest |-> <<>>]
       ELSE [raised |-> "",
             latest |-> CHOOSE x \in folder_timestamps :
                            \A o \in folder_timestamps : ~StrLess(group(x), group(o))]

\* suffixes of folders made by a run, and of one renamed by hand
NamedSuffixes == {strftime(dt) : dt \in FociMaskTimes} \cup {HandSuffix}

RoutinesStart == UnitCall("latest_routines", SetsUpTo(NamedSuffixes, MaxStamped) \ {{}})

U_Routines ==
    UnitReturn("latest_routines",
               [validate_path_files |-> LatestStrptime(u_args),
                validate_folders |-> LatestStrptime(u_args),
                Step3 |-> LatestStrptimeTry(u_args),
                get_latest_nuclei_mask_folder |-> LatestRegex(u_args)])

(***************************************************************************)
(* image_metadata.txt.  The text of the file is a sequence of pieces: a    *)
(* label, a run of blanks, a run of digits, '.', 'e-', a word, the pieces  *)
(* of a file name, or a line break.                                        *)
(***************************************************************************)
Blanks == {" ", "  "}
DigitRuns == {"0", "1", "2", "3", "5", "05"}

DigitVal(run) ==
    CASE run = "0" -> 0 [] run = "1" -> 1 [] run = "2" -> 2 [] run = "3" -> 3
      [] run = "5" -> 5 [] run = "05" -> 5

\* what ImageJ reports for an image: cal.pixelWidth and the like are doubles
\* n * 10^-scale; pixel_depth is the int 0 when cal has no pixelDepth
Doubles == {[n |-> 5, scale |-> 1, is_int |-> FALSE], [n |-> 1, scale |-> 0, is_int |-> FALSE],
            [n |-> 1, scale |-> 5, is_int |-> FALSE]}
IntZero == [n |-> 0, scale |-> 0, is_int |-> TRUE]
Units == {<<"micron">>, <<>>}

\* the number a written value stands for
NumberOf(x) == [n |-> x.n, scale |-> x.scale]

\* 1_select_channels.py 239-241: an f-string formats an int by its digits,
\* a float by repr: '1.0', '0.5', '1e-05'
FormatNumber(x) ==
    IF x.is_int THEN <<NumStr(x.n)>>
    ELSE IF x.scale >= 5 THEN <<NumStr(x.n), "e-", "0" \o NumStr(x.scale)>>
    ELSE IF x.scale = 0 THEN <<NumStr(x.n), ".", "0">>
    ELSE <<"0", ".", NumStr(x.n)>>

\* float(val): [ok, n, scale]; ValueError for any other text
float(val) ==
    IF Len(val) = 1 /\ val[1] \in DigitRuns
    THEN [ok |-> TRUE, n |-> DigitVal(val[1]), scale |-> 0]
    ELSE IF Len(val) = 3 /\ val[1] \in DigitRuns /\ val[3] \in DigitRuns /\ val[2] = "."
    THEN IF DigitVal(val[3]) = 0
         THEN [ok |-> TRUE, n |-> DigitVal(val[1]), scale |-> 0]
         ELSE [ok |-> TRUE, n |-> 10 * DigitVal(val[1]) + DigitVal(val[3]), scale |-> 1]
    ELSE IF Len(val) = 3 /\ val[1] \in DigitRuns /\ val[3] \in DigitRuns /\ val[2] = "e-"
    THEN [ok |-> TRUE, n |-> DigitVal(val[1]), scale |-> DigitVal(val[3])]
    ELSE [ok |-> FALSE, n |-> 0, scale |-> 0]

\* 1_select_channels.py 238-245: the block of one opened image
WriteBlock(img) ==
    <<"Image Name:", " ">> \o img.filename \o <<"\n">>
      \o <<"  ", "Pixel Width:", " ">> \o FormatNumber(img.pixel_width) \o <<"\n">>
      \o <<"  ", "Pixel Height:", " ">> \o FormatNumber(img.pixel_height) \o <<"\n">>
      \o <<"  ", "Pixel Depth:", " ">> \o FormatNumber(img.pixel_depth) \o <<"\n">>
      \o <<"  ", "Unit:", " ">> \o img.unit \o <<"\n">>
      \o <<"  ", "Channels:", " ", "3", "\n">>
      \o <<"  ", "Slices:", " ", "5", "\n">>
      \o <<"  ", "Frames:", " ", "1", "\n", "\n">>

RECURSIVE WriteBlocks(_)
WriteBlocks(images) ==
    IF images = <<>> THEN <<>>
    ELSE WriteBlocks(SubSeq(images, 1, Len(images) - 1)) \o WriteBlock(images[Len(images)])

\* 1_select_channels.py 180-187 and 238-246: the file after the images
WriteMetadata(images) ==
    <<"Image Metadata:", "\n", "================", "\n">> \o WriteBlocks(images)

RECURSIVE split(_, _, _)
\* str.split(sep) of the text from piece i on
split(text, sep, i) ==
    LET hits == {h \in i..Len(text) : MatchAt(text, sep, h)}
    IN IF hits = {} THEN <<SubSeq(text, i, Len(text))>>
       ELSE <<SubSeq(text, i, First(hits) - 1)>> \o split(text, sep, First(hits) + Len(sep))

RECURSIVE strip(_)
\* str.strip()
strip(text) ==
    IF text = <<>> THEN <<>>
    ELSE IF Head(text) \in Blanks \cup {"\n"} THEN strip(Tail(text))
    ELSE IF text[Len(text)] \in Blanks \cup {"\n"} THEN strip(SubSeq(text, 1, Len(text) - 1))
    ELSE text

\* metadata_dict[base_key] = current_data: a new key goes last, a key that
\* is there keeps its place
DictPut(dict, key, value) ==
    IF \E e \in 1..Len(dict) : dict[e].base_key = key
    THEN [e \in 1..Len(dict) |->
             IF dict[e].base_key = key THEN [base_key |-> key, cal_data |-> value]
             ELSE dict[e]]
    ELSE Append(dict, [base_key |-> key, cal_data |-> value])

\* 3_foci_mask_generation.py 132-134 and 155-157: the entry read so far is
\* stored when it has a name and data
StoreEntry(dict, current_name, current_data) ==
    IF current_name # <<>> /\ DOMAIN current_data # {}
    THEN DictPut(dict, splitext(current_name), current_data)
    ELSE dict

\* a parser that stores an entry only when the next 'Image Name:' follows
StoreLastNot(dict, current_name, current_data) == dict

\* 3_foci_mask_generation.py 154-157: the last entry
StoreLast(dict, current_name, current_data) == StoreEntry(dict, current_name, current_data)

\* the value after a label: line.replace(label, "").strip()
ValueAfter(line, label) == strip(re_sub(<<label>>, line, 1))

CalKeys == [Pixel_Width |-> "pixel_width", Pixel_Height |-> "pixel_height",
            Pixel_Depth |-> "pixel_depth"]

RECURSIVE ParseLines(_, _, _, _, _)
\* 3_foci_mask_generation.py 127-157 (3_filter_imgs.py 43-80): the loop over
\* the lines of the file.  Returns [raised, dict].
ParseLines(lines, l, dict, current_name, current_data) ==
    IF l > Len(lines)
    THEN [raised |-> FALSE, dict |-> StoreLast(dict, current_name, current_data)]
    ELSE LET line == strip(lines[l])
             label == IF line = <<>> THEN "" ELSE line[1]
             put(k, v) == [x \in DOMAIN current_data \cup {k} |->
                              IF x = k THEN v ELSE current_data[x]]
             number(k) ==
                 LET val == float(ValueAfter(line, label))
                 IN IF ~val.ok THEN [raised |-> TRUE, dict |-> <<>>]
                    ELSE ParseLines(lines, l + 1, dict, current_name,
                                    put(k, [n |-> val.n, scale |-> val.scale]))
         IN IF label = "Image Name:"
            THEN ParseLines(lines, l + 1, StoreEntry(dict, current_name, current_data),
                            ValueAfter(line, label), <<>>)
            ELSE IF label = "Pixel Width:" THEN number("pixel_width")
            ELSE IF label = "Pixel Height:" THEN number("pixel_height")
            ELSE IF label = "Pixel Depth:" THEN number("pixel_depth")
            ELSE IF label = "Unit:"
            THEN ParseLines(lines, l + 1, dict, current_name,
                            put("unit", ValueAfter(line, label)))
            ELSE ParseLines(lines, l + 1, dict, current_name, current_data)

\* 3_foci_mask_generation.py 113-158, on an existing file
parse_metadata_file(content) ==
    ParseLines(split(content, <<"\n">>, 1), 1, <<>>, <<>>, <<>>)

\* the pieces \w+ matches
Words == {"micron"} \cup DigitRuns

\* the places where re.search finds "<label> (\d+\.\d+)" in the block
FloatMatches(block, label) ==
    {i \in 1..Len(block) :
        /\ i + 4 <= Len(block)
        /\ block[i] = label /\ block[i + 1] = " "
        /\ block[i + 2] \in DigitRuns /\ block[i + 3] = "." /\ block[i + 4] \in DigitRuns}

\* the places where re.search finds "Unit: (\w+)" in the block
WordMatches(block, label) ==
    {i \in 1..Len(block) :
        /\ i + 2 <= Len(block)
        /\ block[i] = label /\ block[i + 1] = " " /\ block[i + 2] \in Words}

\* m.group(1) of the first match, read by float()
FloatGroup(block, label) ==
    LET i == First(FloatMatches(block, label))
        val == float(SubSeq(block, i + 2, i + 4))
    IN [n |-> val.n, scale |-> val.scale]

RECURSIVE ExtractBlocks(_, _, _)
\* 4_foci_quantification.py 164-177: the loop over the blocks
ExtractBlocks(blocks, b, found_so_far) ==
    IF b > Len(blocks) THEN found_so_far
    ELSE LET block == blocks[b]
             image_name == strip(split(block, <<"\n">>, 1)[1])
             image_key == splitext(image_name)
             found == /\ FloatMatches(block, "Pixel Width:") # {}
                      /\ FloatMatches(block, "Pixel Height:") # {}
                      /\ FloatMatches(block, "Pixel Depth:") # {}
                      /\ WordMatches(block, "Unit:") # {}
             entry == [Pixel_Width |-> FloatGroup(block, "Pixel Width:"),
                       Pixel_Height |-> FloatGroup(block, "Pixel Height:"),
                       Pixel_Depth |-> FloatGroup(block, "Pixel Depth:"),
                       Unit |-> <<block[First(WordMatches(block, "Unit:")) + 2]>>]
         IN ExtractBlocks(blocks, b + 1,
                          IF found THEN DictPut(found_so_far, image_key, entry) ELSE found_so_far)

\* 4_foci_quantification.py 151-178, on an existing file
extract_metadata(content) ==
    ExtractBlocks(Tail(split(content, <<"Image Name:", " ">>, 1)), 1, <<>>)

\* the keys of a dictionary
Keys(dict) == {dict[e].base_key : e \in 1..Len(dict)}

\* the images stage 1 opened in one folder, with pairwise distinct base names
WrittenImages ==
    LET image == [filename : {<<"img_a", ".nd2">>, <<"img_b", ".tif">>, <<"img_b", "_2", ".tif">>},
                  pixel_width : Doubles, pixel_height : {CHOOSE x \in Doubles : x.scale = 1},
                  pixel_depth : {CHOOSE x \in Doubles : x.scale = 0, IntZero},
                  unit : Units]
    IN {images \in UNION {[1..n -> image] : n \in 0..MaxEntries} :
           \A i, j \in 1..Len(images) :
               splitext(images[i].filename) = splitext(images[j].filename) => i = j}

MetadataStart == UnitCall("metadata", WrittenImages)

\* stage 1 writes the file, the parsers of stages 3 and 4 read it
U_Metadata ==
    LET content == WriteMetadata(u_args)
    IN UnitReturn("metadata", [parsed |-> parse_metadata_file(content),
                               extracted |-> extract_metadata(content)])

ValidateStart ==
    UnitCall("validate_path_files",
             [json_exists : BOOLEAN,
              folder_paths : UNION {[1..n -> ListedFolders] : n \in 0..MaxFolders},
              step : Steps])

\* validate_folders.py 208-268: the keys of result[folder] at step 4
Step4Fields(f) ==
    {"base_folder"}
        \cup (IF f.assay THEN {"foci_assay_folder"} ELSE {})
        \cup (IF f.assay /\ f.nuclei # {}
              THEN {"final_nuclei_mask_folder", "star_dist_files", "star_dist_count"} ELSE {})
        \cup (IF f.assay /\ f.foci # {}
              THEN {"foci_masks_folder", "foci_projection_files", "foci_projection_count"}
              ELSE {})

\* the call, and for step 4 the keys of the entries it returns
U_Validate ==
    LET r == validate_path_files(u_args.json_exists, u_args.folder_paths, u_args.step)
    IN UnitReturn("validate_path_files",
                  [raised |-> r.raised, result |-> r.result,
                   entries |-> IF r.raised = "" /\ u_args.step = 4
                               THEN [k \in 1..Len(r.result) |->
                                        Step4Fields(u_args.folder_paths[r.result[k]])]
                               ELSE <<>>])

(***************************************************************************)
(* Specifications: one script runs, the others stay idle.                  *)
(***************************************************************************)
InitSelect == SelectStart /\ FilterIdle /\ QuantIdle /\ GraphIdle /\ PipeIdle /\ PoolIdle /\ UnitIdle

SpecSelect == InitSelect /\ [][NextSelect]_vars

InitFilter == SelectIdle /\ FilterStart /\ QuantIdle /\ GraphIdle /\ PipeIdle /\ PoolIdle /\ UnitIdle

SpecFilter == InitFilter /\ [][NextFilter]_vars

InitQuant == SelectIdle /\ FilterIdle /\ QuantStart /\ GraphIdle /\ PipeIdle /\ PoolIdle /\ UnitIdle

SpecQuant == InitQuant /\ [][NextQuant]_vars

InitGraph == SelectIdle /\ FilterIdle /\ QuantIdle /\ GraphStart /\ PipeIdle /\ PoolIdle /\ UnitIdle

SpecGraph == InitGraph /\ [][NextGraph]_vars

\* one run of one of the scripts
InitRun == InitSelect \/ InitFilter \/ InitQuant \/ InitGraph

NextRun == NextSelect \/ NextFilter \/ NextQuant \/ NextGraph

SpecRun == InitRun /\ [][NextRun]_vars

InitPipe == SelectIdle /\ FilterIdle /\ QuantIdle /\ GraphIdle /\ PipeStart /\ PoolIdle /\ UnitIdle

SpecPipe == InitPipe /\ [][NextPipe]_vars

InitPool == SelectIdle /\ FilterIdle /\ QuantIdle /\ GraphIdle /\ PipeIdle /\ PoolStart /\ UnitIdle

SpecPool == InitPool /\ [][NextPool]_vars

\* one call of one helper function
UnitStart == LatestStart \/ ValidateStart \/ CountStart \/ IntersectStart
                \/ KeysStart \/ FindStart \/ MetadataStart \/ LatestFociStart
                \/ SortStart \/ RoutinesStart

NextUnit == U_Latest \/ U_Validate \/ U_Count \/ U_Intersect \/ U_Keys
               \/ U_Find \/ U_Metadata \/ U_LatestFoci
               \/ U_Sort \/ U_Routines

InitUnit == SelectIdle /\ FilterIdle /\ QuantIdle /\ GraphIdle /\ PipeIdle /\ PoolIdle /\ UnitStart

SpecUnit == InitUnit /\ [][NextUnit]_vars

(***************************************************************************)
(* Claims about stage 4 (SpecQuant)                                        *)
(***************************************************************************)
Visited == {visited[i] : i \in 1..Len(visited)}

\* the channel subsets of size >= 2 of an iteration's valid channels
ColocSubsets(v) ==
    Range(SubsetsFrom(SelectSeq2(ChannelOrder, v.valid), 2, Cardinality(v.valid)))

\* C1: for an image with a metadata entry and k >= 1 foci channel masks of the
\* nuclei mask's shape, process_nuclei_image returns one record per labelled
\* nucleus, each with a Foci Count for every one of the k channels.
C1_RecordPerNucleusEveryChannel ==
    \A v \in Visited :
        (v.called /\ v.meta /\ v.valid # {}) =>
            /\ Len(v.rows) = v.nuclei
            /\ \A r \in 1..Len(v.rows) : v.valid \subseteq DOMAIN v.rows[r].Foci_Count

\* C2: with colocalization requested and n >= 2 valid channels, every channel
\* subset of size >= 2 has its intersection mask file and its Foci Count
\* column in the returned per-nucleus records.
C2_ColocalizationSubsets ==
    \A v \in Visited :
        (perform_colocalization /\ v.called /\ v.meta /\ Cardinality(v.valid) >= 2) =>
            /\ Len(v.rows) = v.nuclei
            /\ \A subset \in ColocSubsets(v) :
                /\ IntersectionName(v.key, JoinPlus(subset)) \in results_fs.files
                /\ \A r \in 1..Len(v.rows) :
                       JoinPlus(subset) \in DOMAIN v.rows[r].Foci_Count

\* an iteration whose nuclei mask has no companion foci mask: its key is in
\* no channel, or every listed foci file is missing or of another shape
NoCompanion(v) == ~v.called \/ (v.meta /\ v.valid = {})

\* C10: a nuclei mask without companion foci masks contributes no rows and
\* raises no exception (not even a swallowed one), and the loop goes on with
\* the next nuclei mask: the iterations done are exactly the files before
\* q_idx, and a later image with one valid channel still gets its rows.
C10_MissingCompanionSkipped ==
    /\ \A v \in Visited :
          NoCompanion(v) =>
              /\ v.rows = <<>>
              /\ ~v.caught
              /\ \A r \in 1..Len(all_results) : all_results[r].Image_Key # v.key
    /\ (\E v \in Visited : NoCompanion(v)) =>
          /\ q_pc # "raised"
          /\ q_pc = "image" =>
                /\ Len(visited) = q_idx - 1
                /\ \A i \in 1..Len(visited) : visited[i].key = nuclei_files[i]
          /\ \A i, j \in 1..Len(visited) :
                (i < j /\ NoCompanion(visited[i]) /\ visited[j].called
                   /\ Cardinality(visited[j].valid) = 1) =>
                    Len(visited[j].rows) = visited[j].nuclei

C10_Witness ==
    \E i, j \in 1..Len(visited) :
        /\ i < j
        /\ visited[i].called /\ visited[i].meta /\ visited[i].valid = {}
        /\ visited[j].rows # <<>>
        /\ q_pc = "folder"

(***************************************************************************)
(* Claims about stage 1 (SpecSelect)                                       *)
(***************************************************************************)
\* C7: when the folder's foci_assay already existed, its results
\* (image_metadata.txt, 1_log.txt, projections) are truncated or overwritten
\* only if the answer to the overwrite prompt was 'yes'; after any other
\* answer the folder is as it was.
C7_OverwriteOnlyOnYes ==
    (s_before.exists /\ response # "yes") => s_disk = s_before

\* the image has fewer channels than a selected channel asks for
C9_Mismatch(v) ==
    v.opened /\ \E c \in {nuclei_channel} \cup Range(foci_channels) : v.channels < c

\* the projection files process_image names after the image
C9_Projections(v) ==
    {NucleiOut(v.base_name)} \cup
    {FociDirName(i, foci_channels[i]) \o "/" \o v.base_name \o "_foci_projection.tif" :
        i \in 1..Len(foci_channels)}

\* C9: an image with fewer channels than the selected nuclei channel or than
\* a selected foci channel gets no nuclei and no foci projection (what an
\* earlier run left under its name stays as it was), no exception is raised,
\* and the loop goes on: every entry before s_idx has been handled, and a
\* later image with enough channels gets its projections.
C9_ChannelMismatchSkipped ==
    /\ \A i \in 1..Len(s_visited) :
          C9_Mismatch(s_visited[i]) =>
              /\ s_visited[i].written = {}
              /\ s_visited[i].exceed
              /\ s_pc # "raised" /\ s_error = ""
              /\ \A p \in C9_Projections(s_visited[i]) :
                    p \in DOMAIN s_disk.files =>
                        /\ p \in DOMAIN s_before.files
                        /\ s_disk.files[p] = s_before.files[p]
    /\ (\E i \in 1..Len(s_visited) : C9_Mismatch(s_visited[i])) =>
          /\ s_pc = "image" => Len(s_visited) = s_idx - 1
          /\ \A i, j \in 1..Len(s_visited) :
                (i < j /\ C9_Mismatch(s_visited[i]) /\ s_visited[j].opened
                   /\ ~C9_Mismatch(s_visited[j])) =>
                    /\ NucleiOut(s_visited[j].base_name) \in s_visited[j].written
                    /\ s_visited[j].written \subseteq DOMAIN s_disk.files

C9_Witness ==
    \E i, j \in 1..Len(s_visited) :
        /\ i < j
        /\ C9_Mismatch(s_visited[i])
        /\ s_visited[i].base_name = "img_a" /\ s_before.exists
        /\ s_visited[j].written # {}
        /\ s_pc = "folder"

(***************************************************************************)
(* Claims about the directory convention between the stages (SpecPipe)     *)
(***************************************************************************)
\* C3: stage 4 reads image_metadata.txt at the path at which stage 1 wrote
\* it: when stage 1 has run on the base folder before stage 4, stage 4 finds
\* the folder's metadata file.
C3_Stage4FindsStage1Metadata ==
    (p_quant.ran /\ "stage1" \in p_quant.after) =>
        /\ metadata_path = metadata_file_path
        /\ p_quant.metadata_found

\* C4: stage 4 searches for Final_Nuclei_Mask_<timestamp> folders in the
\* directory in which stage 2 creates them: when stage 2 has produced such a
\* folder before stage 4 gathers its paths, the folder stage 4 selects is one
\* that stage 2 produced.
C4_Stage4SelectsStage2Folder ==
    (p_quant.ran /\ p_quant.gathered /\ p_quant.stage2_out # {}) =>
        /\ \A p \in p_quant.stage2_out :
              SubSeq(p, 1, Len(p) - 1) = p_quant.searched
        /\ p_quant.nuclei_folder \in p_quant.stage2_out

\* C5: once stage 4 has saved its result csv under foci_analysis, stage 5's
\* gather_data_for_folder loads the folder's data (two data frames, not
\* (None, None)).
C5_Stage5LoadsStage4Csv ==
    (p_graph.ran /\ p_graph.after_csv) => p_graph.loaded

(***************************************************************************)
(* Claims about stage 3 (SpecFilter)                                       *)
(***************************************************************************)
\* a listed base folder without foci_assay or without foci_assay/Foci
C8_Lacking(f) == ~m_layout[f].foci_assay \/ ~m_layout[f].Foci

\* a listed base folder the script has what it needs to process
C8_Complete(f) ==
    IF m_script = "filter_foci"
    THEN m_layout[f].Foci /\ chosen_subfolder \in m_layout[f].subfolders
    ELSE /\ m_layout[f].Foci /\ m_layout[f].foci_tifs /\ m_layout[f].nuclei

\* C8: when a listed base folder lacks foci_assay or Foci, main_filter_foci
\* and main_filter_imgs raise no exception because of it (no KeyError for
\* the missing dict entry), and a run that is confirmed ends with every
\* other listed folder processed.
C8_MissingStructureSkipped ==
    (\E f \in Range(m_paths) : C8_Lacking(f)) =>
        /\ m_error # "KeyError: 'foci_folder'"
        /\ (start_processing \in {"yes", "y"} /\ m_pc \notin {"filter"}) =>
              /\ m_pc = "done"
              /\ \A f \in Range(m_paths) : C8_Complete(f) => f \in Range(m_processed)

(***************************************************************************)
(* Claims about the start prompts (SpecRun)                                *)
(***************************************************************************)
\* the start prompt of the script was answered 'no' or 'n'
C6_Stage1Cancelled == start_analysis \in {"no", "n"}
C6_Stage3Cancelled == start_processing \in {"no", "n"}
C6_Stage4Cancelled == proceed_processing \in {"no", "n"}
C6_Stage5Cancelled == start_proc \in {"no", "n"}

\* after a cancellation stages 1, 3 and 4 have raised and have processed
\* no image
C6_RaisedInStages134 ==
    /\ C6_Stage1Cancelled =>
          /\ s_pc = "raised" /\ s_error = "Analysis canceled by user."
          /\ s_visited = <<>> /\ s_disk = AbsentAssay /\ s_handlers = {}
    /\ C6_Stage3Cancelled =>
          /\ m_pc = "raised" /\ m_error = "Analysis canceled by user."
          /\ m_processed = <<>>
    /\ C6_Stage4Cancelled =>
          /\ q_pc = "raised" /\ q_error = "Processing canceled by user."
          /\ visited = <<>> /\ all_results = <<>> /\ csv_saved = {}
          /\ results_fs = EmptyResultsFs

\* C6 as stated: answering 'no' or 'n' at the start prompt raises an
\* exception in every stage (1, 3, 4 and 5), and no image or data file is
\* processed afterwards.
C6_CancelRaisesInEveryStage ==
    /\ C6_RaisedInStages134
    /\ C6_Stage5Cancelled =>
          /\ g_pc = "raised"
          /\ all_foci = <<>> /\ ~g_graphs /\ g_idx = 1

\* C6, amended: answering 'no' or 'n' at the start prompt raises an
\* exception in stages 1, 3 and 4; in stage 5 it logs a warning and returns
\* without an exception; in every stage no image or data file is processed
\* afterwards.
C6_CancelStopsEveryStage ==
    /\ C6_RaisedInStages134
    /\ C6_Stage5Cancelled =>
          /\ g_pc = "returned" /\ g_error = ""
          /\ g_log = <<"Graph generation canceled.">>
          /\ all_foci = <<>> /\ ~g_graphs /\ g_idx = 1

C6_Witness ==
    /\ start_proc = "n"
    /\ g_pc = "returned"
    /\ \E f \in Range(g_folders) : gather_data_for_folder(g_disks[f], f)

(***************************************************************************)
(* C11: a failure inside process_nuclei_image is swallowed: the image      *)
(* whose analysis raised contributes an empty result, no exception leaves  *)
(* the image loop, the loop goes on with the next nuclei file, and no      *)
(* nuclei file of the folder is passed to process_nuclei_image twice.      *)
(***************************************************************************)
C11_FailureSwallowedNotRetried ==
    q_pc = "image" =>
        /\ q_error = ""
        /\ q_idx = Len(visited) + 1
        /\ \A i \in 1..Len(visited) :
              /\ visited[i].key = nuclei_files[i]
              /\ visited[i].caught => visited[i].called /\ visited[i].rows = <<>>
              /\ \A j \in 1..Len(visited) : visited[i].key = visited[j].key => i = j

\* an image whose analysis raised, followed by another image of the folder
C11_Witness ==
    /\ q_pc = "image"
    /\ \E i \in 1..Len(visited) :
          visited[i].caught /\ i < Len(visited) /\ visited[i + 1].called

(***************************************************************************)
(* Claims about concurrent executions (SpecPool)                           *)
(***************************************************************************)
\* the two executions run one after the other on the same results folder
PoolSequential ==
    LET call(w, fs) ==
            process_nuclei_image(pool_in[w].key, pool_in[w].nuclei_mask, {PoolChannel},
                [c \in {PoolChannel} |-> [exists |-> TRUE, mask |-> pool_in[w].foci_mask]],
                {PoolKeys[v] : v \in Workers}, FALSE, fs)
        first == call("w1", EmptyResultsFs)
    IN [w \in Workers |-> IF w = "w1" THEN first.rows ELSE call(w, first.fs).rows]

\* C12: for two different images of one results folder, every interleaving
\* of two concurrent process_nuclei_image executions returns for each image
\* the rows that running the two executions one after the other returns.
C12_ConcurrentEqualsSequential ==
    (\A w \in Workers : pool_pc[w] = "done") =>
        \A w \in Workers : pool_ret[w].rows = PoolSequential[w]

(***************************************************************************)
(* Claims about helper functions (SpecUnit)                                *)
(***************************************************************************)
\* the date-time no other date-time of the set follows
Newest(T) == CHOOSE dt \in T : \A o \in T : ~DatetimeLess(dt, o)

\* C13: for folder names with the same prefix and well-formed timestamp
\* suffixes, the latest by string comparison of the suffix is the latest by
\* the parsed date-time, and it is the chronologically newest folder.
C13_LatestWellDefined ==
    (u_fn = "latest_folder" /\ u_done) =>
        /\ u_ret.by_suffix = u_ret.by_datetime
        /\ u_ret.by_suffix = strftime(Newest(u_args))

\* two folders whose order is decided by the time of day only
C13_Witness ==
    /\ u_fn = "latest_folder" /\ u_done
    /\ \E a \in u_args, b \in u_args :
          /\ a # b /\ a.Y = b.Y /\ a.m = b.m /\ a.d = b.d
          /\ u_ret.by_suffix = strftime(b)

(***************************************************************************)
(* Claims about the csv of stage 4 (SpecQuant)                             *)
(***************************************************************************)
\* the rows process_nuclei_image returned for the images of the base folder
\* handled last, in the order of the calls
RECURSIVE ReturnedRows(_)
ReturnedRows(vs) ==
    IF vs = <<>> THEN <<>> ELSE ReturnedRows(SubSeq(vs, 1, Len(vs) - 1)) \o vs[Len(vs)].rows

RowCount(rows, r) == Cardinality({i \in 1..Len(rows) : rows[i] = r})

\* C14: once a base folder has been handled, all_results_with_coloc_universal.csv
\* has been written into its Results folder if and only if some image of the
\* folder returned rows, and the csv then holds every row returned for the
\* folder's images exactly as often as it was returned, and no other row.
C14_CsvIsConcatenation ==
    q_pc \in {"folder", "done"} =>
        LET returned == ReturnedRows(visited)
        IN /\ (csv # NoCsv) <=> (returned # <<>>)
           /\ f_idx > 1 =>
                 ((folder_dicts[f_idx - 1] \in csv_saved) <=> (returned # <<>>))
           /\ csv # NoCsv =>
                 /\ Len(csv) = Len(returned)
                 /\ \A i \in 1..Len(returned) :
                       RowCount(csv, returned[i]) = RowCount(returned, returned[i])

\* two images of one folder returned rows, one of them for two nuclei, and
\* the csv of the folder has been written
C14_Witness ==
    /\ q_pc = "folder"
    /\ csv # NoCsv
    /\ \E i, j \in 1..Len(visited) :
          i # j /\ Len(visited[i].rows) >= 2 /\ visited[j].rows # <<>>

(***************************************************************************)
(* Claims about validate_path_files (SpecUnit)                             *)
(***************************************************************************)
\* C15: validate_path_files raises ValueError if the JSON file does not
\* exist, if it lists no folder, if a listed folder does not exist or if
\* step is not one of 1..4, and in every other case it returns.
C15_RaisesExactlyDocumented ==
    (u_fn = "validate_path_files" /\ u_done) =>
        LET documented ==
                \/ ~u_args.json_exists
                \/ Len(u_args.folder_paths) = 0
                \/ \E i \in 1..Len(u_args.folder_paths) : ~u_args.folder_paths[i].exists
                \/ u_args.step \notin 1..4
        IN IF documented THEN u_ret.raised = "ValueError" ELSE u_ret.raised = ""

(***************************************************************************)
(* Claims about stage 5 (SpecGraph)                                        *)
(***************************************************************************)
\* C16: the graphs_representation_<timestamp> folder is created under
\* foci_analysis of the first folder the JSON file lists, whatever the
\* listed folders hold.
C16_GraphsUnderFirstListed ==
    g_graphs => graphs_base = g_listed[1]

(***************************************************************************)
(* Claims about count_foci_in_nuclei (SpecUnit)                            *)
(***************************************************************************)
RECURSIVE DecVal(_)
\* the number a string of decimal digits stands for
DecVal(digits) ==
    IF digits = <<>> THEN 0
    ELSE 10 * DecVal(SubSeq(digits, 1, Len(digits) - 1)) + digits[Len(digits)]

\* C17: for masks of equal shape, with the labels measure.label gives their
\* objects, count_foci_in_nuclei returns exactly one row per nucleus label n;
\* its Foci Count is the number of distinct foci labels f that share a pixel
\* with n, its Total Foci Area the number of pixels of n with a non-zero foci
\* label, which never exceeds the nucleus area.
C17_ReferenceOverlapCount ==
    (u_fn = "count_foci_in_nuclei" /\ u_done
        /\ Len(u_args.nuclei_mask) = Len(u_args.foci_mask)) =>
        LET nuc == measure_label(u_args.nuclei_mask)
            foc == measure_label(u_args.foci_mask)
            px == 1..Len(nuc)
            rows == u_ret.rows
        IN /\ ~u_ret.raised
           /\ {DecVal(rows[r].Nucleus) : r \in 1..Len(rows)} = {nuc[i] : i \in px} \ {0}
           /\ \A r, q \in 1..Len(rows) : rows[r].Nucleus = rows[q].Nucleus => r = q
           /\ \A r \in 1..Len(rows) :
                LET n == DecVal(rows[r].Nucleus)
                IN /\ DecVal(rows[r].Foci_Count) =
                        Cardinality({foc[i] : i \in {j \in px : nuc[j] = n}} \ {0})
                   /\ DecVal(rows[r].Total_Foci_Area) =
                        Cardinality({i \in px : nuc[i] = n /\ foc[i] # 0})
                   /\ DecVal(rows[r].Total_Foci_Area) <= DecVal(rows[r].Nucleus_Area)

\* a focus that lies over two nuclei is counted once in each of them, next
\* to a nucleus pixel without a focus
C17_Witness ==
    /\ u_fn = "count_foci_in_nuclei" /\ u_done
    /\ u_args.nuclei_mask = <<1, 2, 2, 0>>
    /\ u_args.foci_mask = <<1, 1, 0, 1>>
    /\ Len(u_ret.rows) = 2
    /\ \A r \in 1..2 : u_ret.rows[r].Foci_Count = <<1>>

(***************************************************************************)
(* Claims about build_intersection_mask (SpecUnit)                         *)
(***************************************************************************)
\* the labels the input masks have at pixel i
LabelTuple(masks, i) == [k \in 1..Len(masks) |-> masks[k][i]]

\* the call returned a mask
C18_Returned ==
    /\ u_fn = "build_intersection_mask" /\ u_done
    /\ Len(u_args) >= 2
    /\ \A k \in 1..Len(u_args) : Len(u_args[k]) = Len(u_args[1])

\* C18: an output pixel is non-zero iff every input mask is non-zero there,
\* two non-zero output pixels have the same label iff they have the same
\* tuple of input labels, and the output labels are exactly 1..K, K the
\* number of distinct tuples of non-zero labels that occur at a pixel.
C18_LabelsTheIntersection ==
    C18_Returned =>
        LET out == u_ret.mask
            px == 1..Len(u_args[1])
            inside == {i \in px : \A k \in 1..Len(u_args) : u_args[k][i] # 0}
        IN /\ ~u_ret.raised
           /\ Len(out) = Len(u_args[1])
           /\ \A i \in px : out[i] # 0 <=> i \in inside
           /\ \A i, j \in inside :
                 out[i] = out[j] <=> LabelTuple(u_args, i) = LabelTuple(u_args, j)
           /\ {out[i] : i \in inside} =
                 1..Cardinality({LabelTuple(u_args, i) : i \in inside})

\* two label tuples that occur, and a pixel outside the intersection that
\* one of the masks labels
C18_Witness ==
    /\ C18_Returned
    /\ Cardinality(Range(u_ret.mask) \ {0}) = 2
    /\ \E i \in 1..Len(u_ret.mask) : u_ret.mask[i] = 0 /\ u_args[1][i] # 0

(***************************************************************************)
(* Claims about image keys (SpecUnit)                                      *)
(***************************************************************************)
\* C19: for every base name B of a source image, the key of the nuclei mask
\* name of stage 2 and the key of the foci mask name of stage 3 both equal
\* B, which is also the metadata key of 'Image Name: B.<ext>', also when B
\* starts with 'processed_' or contains '.nd2'.
C19_KeysAgree ==
    (u_fn = "image_keys" /\ u_done) =>
        /\ u_ret.nuclei = u_args.B
        /\ u_ret.foci = u_args.B
        /\ u_ret.metadata = u_args.B

(***************************************************************************)
(* Claims about find_metadata_for_file (SpecUnit)                          *)
(***************************************************************************)
\* C20: for a file named after the image B and a dictionary with the key B,
\* find_metadata_for_file returns the entry stored under B, also when
\* another key is a substring of B; it returns None if and only if no key
\* is contained in the file name.
C20_ReturnsEntryOfImage ==
    (u_fn = "find_metadata_for_file" /\ u_done) =>
        LET dict == u_args.metadata_dict
            filename == IF u_args.nuclei THEN NucleiProjection(u_args.B)
                        ELSE FociProjection(u_args.B)
        IN /\ \A e \in 1..Len(dict) :
                 dict[e].base_key = u_args.B =>
                     ~u_ret.none /\ u_ret.cal_data = dict[e].cal_data
           /\ u_ret.none <=>
                 ~\E e \in 1..Len(dict) : Contains(filename, dict[e].base_key)

(***************************************************************************)
(* Claims about image_metadata.txt (SpecUnit)                              *)
(***************************************************************************)
\* C21: of a metadata file stage 1 wrote for images with pairwise distinct
\* base names, parse_metadata_file returns exactly one entry per written
\* image, under the image's base name, with the pixel width, pixel height,
\* pixel depth and unit written for it.
C21_MetadataRoundTrip ==
    (u_fn = "metadata" /\ u_done) =>
        LET dict == u_ret.parsed.dict
        IN /\ ~u_ret.parsed.raised
           /\ Len(dict) = Len(u_args)
           /\ \A i \in 1..Len(u_args) :
                 /\ dict[i].base_key = splitext(u_args[i].filename)
                 /\ DOMAIN dict[i].cal_data =
                        {"pixel_width", "pixel_height", "pixel_depth", "unit"}
                 /\ dict[i].cal_data["pixel_width"] = NumberOf(u_args[i].pixel_width)
                 /\ dict[i].cal_data["pixel_height"] = NumberOf(u_args[i].pixel_height)
                 /\ dict[i].cal_data["pixel_depth"] = NumberOf(u_args[i].pixel_depth)
                 /\ dict[i].cal_data["unit"] = u_args[i].unit

\* two images, one with a pixel width in exponent form, the integer depth 0
\* and an empty unit
C21_Witness ==
    /\ u_fn = "metadata" /\ u_done
    /\ Len(u_args) = 2 /\ Len(u_ret.parsed.dict) = 2
    /\ \E i \in 1..2 : /\ u_args[i].pixel_width.scale = 5
                       /\ u_args[i].pixel_depth = IntZero
                       /\ u_args[i].unit = <<>>

\* C22: on a metadata file written by stage 1, extract_metadata returns an
\* entry for the same image keys as parse_metadata_file: stage 4 drops no
\* written block.
C22_ParsersAgree ==
    (u_fn = "metadata" /\ u_done) =>
        Keys(u_ret.extracted) = Keys(u_ret.parsed.dict)

\* one image with the pixel depth 1.0 and the unit 'micron', and a pixel
\* width written in exponent form: stage 3 has its entry, stage 4 has none
C22_Dropped ==
    /\ u_fn = "metadata" /\ u_done
    /\ Len(u_args) = 1
    /\ u_args[1].pixel_width.scale = 5
    /\ ~u_args[1].pixel_depth.is_int /\ u_args[1].unit # <<>>
    /\ Keys(u_ret.parsed.dict) = {splitext(u_args[1].filename)}
    /\ Keys(u_ret.extracted) = {}

(***************************************************************************)
(* Claims about the outputs of stage 1 (SpecSelect)                        *)
(***************************************************************************)
\* process_image has left the file loop of a folder (line 373)
FolderFinished == s_pc \in {"folder", "done"} /\ s_fidx > 1

\* the projections process_image writes for an image it does not skip
Projections(base_name) ==
    {NucleiOut(base_name)}
        \cup FociPaths(foci_channels, FociFolders(foci_channels, 1, <<>>), base_name)

\* image_metadata.txt holds a block for the file
HasBlock(name) == \E l \in 1..Len(s_disk.metadata) : s_disk.metadata[l] = "Image Name: " \o name

\* C23: when stage 1 has finished a folder, image_metadata.txt holds a block
\* for exactly the images whose nuclei projection and foci projections were
\* written, and each image has all of its projections or none.
C23_BlocksMatchProjections ==
    FolderFinished =>
        \A e \in 1..Len(s_visited) :
            /\ s_visited[e].written \in {{}, Projections(s_visited[e].base_name)}
            /\ HasBlock(s_visited[e].name)
                   <=> s_visited[e].written = Projections(s_visited[e].base_name)

\* a finished folder with an image skipped for its channel count: it has a
\* block and no projection
C23_BlockWithoutProjections ==
    /\ FolderFinished
    /\ \E e \in 1..Len(s_visited) :
          /\ s_visited[e].exceed /\ s_visited[e].written = {}
          /\ HasBlock(s_visited[e].name)

\* C24: every foci subfolder stage 1 created for the selected channels holds
\* the foci projection of its channel for every image that was processed.
C24_FociFoldersFilled ==
    FolderFinished =>
        \A i \in 1..Len(foci_channels), e \in 1..Len(s_visited) :
            s_visited[e].written # {} =>
                LET foci_out == FociOut(FociDirName(i, foci_channels[i]),
                                        s_visited[e].base_name)
                IN /\ FociDirName(i, foci_channels[i]) \in s_disk.dirs
                   /\ foci_out \in DOMAIN s_disk.files
                   /\ s_disk.files[foci_out] = <<"foci", foci_channels[i]>>

\* channel 1 entered for both foci indices, a fresh folder, one image
\* processed: Foci_1_Channel_1 was created and holds nothing
C24_EmptyFociFolder ==
    /\ FolderFinished
    /\ foci_channels = <<1, 1>> /\ ~s_before.exists
    /\ "Foci/Foci_1_Channel_1" \in s_disk.dirs
    /\ \E e \in 1..Len(s_visited) :
          /\ s_visited[e].written # {}
          /\ FociOut("Foci/Foci_1_Channel_1", s_visited[e].base_name) \notin DOMAIN s_disk.files
          /\ FociOut("Foci/Foci_2_Channel_1", s_visited[e].base_name) \in DOMAIN s_disk.files

(***************************************************************************)
(* Claims about get_latest_foci_folders (SpecUnit)                         *)
(***************************************************************************)
\* the listed entries that are folders of the channel with a timestamp
StampedOf(listing, channel) ==
    {i \in 1..Len(listing) :
        /\ listing[i].channel = channel /\ listing[i].stamp # <<>>}

\* the first listed among the entries of the greatest date-time
FirstNewest(listing, I) ==
    First({i \in I : \A j \in I : ~DatetimeLess(listing[i].stamp[1], listing[j].stamp[1])})

\* C25: get_latest_foci_folders returns, for every channel name that has a
\* folder with a well-formed timestamp, the folder of that channel with the
\* greatest timestamp, the first listed on a tie; it returns nothing for
\* other names, and raises if there is no such channel.
C25_LatestPerChannel ==
    (u_fn = "get_latest_foci_folders" /\ u_done) =>
        LET channels == {c \in {<<49>>, <<49, 48>>} : StampedOf(u_args, c) # {}}
            name(c) == FociPrefix \o <<49>> \o ChannelInfix \o c
        IN IF channels = {} THEN u_ret.raised # ""
           ELSE /\ u_ret.raised = ""
                /\ DOMAIN u_ret.paths = {name(c) : c \in channels}
                /\ \A c \in channels :
                      u_ret.paths[name(c)] =
                          EntryName(u_args[FirstNewest(u_args, StampedOf(u_args, c))])

\* a newer folder of channel 10 listed before an older folder of channel 1:
\* each channel gets its own folder
C25_Witness ==
    /\ u_fn = "get_latest_foci_folders" /\ u_done
    /\ Len(u_args) = 2
    /\ u_args[1].channel = <<49, 48>> /\ u_args[2].channel = <<49>>
    /\ u_args[1].stamp # <<>> /\ u_args[2].stamp # <<>>
    /\ DatetimeLess(u_args[2].stamp[1], u_args[1].stamp[1])
    /\ u_ret.raised = ""
    /\ Cardinality(DOMAIN u_ret.paths) = 2

(***************************************************************************)
(* Claims about the order of the csv rows (SpecUnit)                       *)
(***************************************************************************)
\* C26: the rows of the result csv are ordered by Image Key and, within one
\* image, by ascending nucleus number.
C26_RowsInNumericOrder ==
    (u_fn = "sort_values" /\ u_done) =>
        \A i, j \in 1..Len(u_ret) :
            i < j =>
                /\ KeyIndex(u_ret[i].Image_Key) <= KeyIndex(u_ret[j].Image_Key)
                /\ u_ret[i].Image_Key = u_ret[j].Image_Key
                       => DecVal(u_ret[i].Nucleus) < DecVal(u_ret[j].Nucleus)

\* an image with ten nuclei: the row of nucleus 10 stands before the row of
\* nucleus 2
C26_TenBeforeTwo ==
    /\ u_fn = "sort_values" /\ u_done
    /\ \E i, j \in 1..Len(u_ret) :
          /\ i < j /\ u_ret[i].Image_Key = u_ret[j].Image_Key
          /\ DecVal(u_ret[i].Nucleus) = 10 /\ DecVal(u_ret[j].Nucleus) = 2

(***************************************************************************)
(* Claims about step 4 of validate_path_files (SpecUnit)                   *)
(***************************************************************************)
\* a listed folder with a Foci_Mask_<timestamp> folder and no
\* Final_Nuclei_Mask_<timestamp> folder
FociMaskOnly(f) == f.exists /\ f.assay /\ f.foci = {StampedSuffix} /\ f.nuclei = {}

\* C27: at step 4, with existing listed folders whose stamped folders are
\* well named, a base folder that has a Foci_Mask_ folder and no
\* Final_Nuclei_Mask_ folder makes validate_path_files raise nothing, and
\* its entry holds the foci-mask fields only.
C27_MissingNucleiMaskContinues ==
    (/\ u_fn = "validate_path_files" /\ u_done
     /\ u_args.step = 4 /\ u_args.json_exists
     /\ \A i \in 1..Len(u_args.folder_paths) :
           /\ u_args.folder_paths[i].exists
           /\ HandSuffix \notin u_args.folder_paths[i].nuclei \cup u_args.folder_paths[i].foci
     /\ \E i \in 1..Len(u_args.folder_paths) : FociMaskOnly(u_args.folder_paths[i]))
        => /\ u_ret.raised = ""
           /\ \A k \in 1..Len(u_ret.result) :
                 FociMaskOnly(u_args.folder_paths[u_ret.result[k]]) =>
                     u_ret.entries[k] =
                         {"base_folder", "foci_assay_folder", "foci_masks_folder",
                          "foci_projection_files", "foci_projection_count"}

\* the only listed folder has a Foci_Mask_ folder and no Final_Nuclei_Mask_
\* folder: the call ends with UnboundLocalError
C27_Unbound ==
    /\ u_fn = "validate_path_files" /\ u_done
    /\ u_args.step = 4 /\ u_args.json_exists
    /\ Len(u_args.folder_paths) = 1 /\ FociMaskOnly(u_args.folder_paths[1])
    /\ u_ret.raised = "UnboundLocalError"

(***************************************************************************)
(* Claims about malformed timestamps (SpecUnit)                            *)
(***************************************************************************)
\* C28: where some folder of the prefix has a valid timestamp, every routine
\* that selects the latest folder returns the latest validly named one and
\* raises nothing, whatever other suffixes are there.
C28_MalformedIgnored ==
    (/\ u_fn = "latest_routines" /\ u_done
     /\ \E x \in u_args : MatchesFormat(x))
        => LET newest == LatestByDatetime({x \in u_args : MatchesFormat(x)})
           IN /\ u_ret.validate_path_files = [raised |-> "", latest |-> newest]
              /\ u_ret.validate_folders = [raised |-> "", latest |-> newest]
              /\ u_ret.Step3 = [raised |-> "", latest |-> newest]
              /\ u_ret.get_latest_nuclei_mask_folder = [raised |-> "", latest |-> newest]

\* a stamped folder and one renamed by hand: Step3.py and
\* get_latest_nuclei_mask_folder select the stamped one, the other two raise
C28_StrptimeRaises ==
    /\ u_fn = "latest_routines" /\ u_done
    /\ HandSuffix \in u_args /\ Cardinality(u_args) = 2
    /\ u_ret.validate_path_files.raised = "ValueError"
    /\ u_ret.validate_folders.raised = "ValueError"
    /\ u_ret.Step3.raised = "" /\ u_ret.Step3.latest \in u_args \ {HandSuffix}
    /\ u_ret.get_latest_nuclei_mask_folder = u_ret.Step3

(***************************************************************************)
(* Claims about the log file handlers (SpecSelect, SpecQuant)              *)
(***************************************************************************)
\* C29: while stage 1 or stage 4 processes the images of a base folder, the
\* only log file handler attached to the root logger is the one of that
\* folder: no handler of an earlier folder is still attached.
C29_HandlersIsolated ==
    /\ s_pc = "image" => s_handlers \subseteq {valid_folders[s_fidx]}
    /\ q_pc = "image" => handlers \subseteq {folder_dicts[f_idx]}

\* stage 1 processes its second folder with the handler of the first still
\* attached
C29_StaleHandlerStage1 ==
    /\ s_pc = "image" /\ s_fidx = 2
    /\ valid_folders[1] \in s_handlers

\* stage 4 processes its second folder, after a first one without nuclei
\* files, with the handler of the first still attached
C29_StaleHandlerStage4 ==
    /\ q_pc = "image" /\ f_idx = 2
    /\ folder_dicts[1] \in handlers

(***************************************************************************)
(* Claims about the parameter checks of stage 1 (SpecSelect)               *)
(***************************************************************************)
\* the four parameters are as process_image requires them
ParamsValid ==
    /\ file_type \in 1..3
    /\ nuclei_channel \in 1..12
    /\ num_foci_channels >= 1
    /\ Len(foci_channels) = num_foci_channels
    /\ \A i \in 1..Len(foci_channels) : foci_channels[i] \in 1..12

\* the foci_assay folder of an input folder was created or changed, or a log
\* file was opened
Touched == s_disk # s_before \/ s_handlers # {}

ParamErrors ==
    {"Invalid file type selection (must be 1-3).",
     "Invalid channel number for Nuclei (must be 1-12).",
     "Number of Foci channels must be at least 1.",
     "Invalid channel number for Foci (must be 1-12)."}

\* C30: process_image reaches its folder loop only with a file type in 1..3,
\* a nuclei channel in 1..12, at least one foci channel and every foci
\* channel in 1..12; otherwise it has raised ValueError, and then no
\* foci_assay folder, log file or metadata file was created or modified.
C30_ValidatedBeforeFolders ==
    /\ s_pc \in {"folder", "image", "done"} => ParamsValid
    /\ Touched => ParamsValid
    /\ ~ParamsValid /\ s_pc \notin {"start", "file_type", "nuclei_channel", "num_foci",
                                    "foci_channel", Idle}
           => s_pc = "raised" /\ ~Touched
    /\ s_pc = "raised" /\ s_error \in ParamErrors => ~ParamsValid /\ ~Touched

\* the second foci channel is out of range, after a valid first one, with a
\* folder listed: ValueError, nothing touched
C30_Witness ==
    /\ s_pc = "raised"
    /\ s_error = "Invalid channel number for Foci (must be 1-12)."
    /\ Len(foci_channels) = 1 /\ num_foci_channels = 2
    /\ Len(valid_folders) >= 1
    /\ ~Touched

====
